---- MODULE Spec2Model ----
(***************************************************************************)
(* Model of chalice/deploy/deployer.py: the Deployer, the LambdaDeployer,  *)
(* the APIGatewayDeployer and the ApplicationPolicyHandler, run against a  *)
(* model of the remote services the TypedAWSClient talks to.               *)
(*                                                                         *)
(* One operation, a deploy or a delete, is a sequential process; pc is     *)
(* its position, stack the return addresses of the methods it is in.       *)
(* There is one action per remote call, with the local code around the     *)
(* call inside the action.                                                 *)
(***************************************************************************)
EXTENDS Integers, Sequences, FiniteSets, TLC

VARIABLES
    config,             \* the Config object handed to deploy
    prompter,           \* "NoPrompt" or "Interactive"
    deployed,           \* the stage's resource record on disk: {} or {record}
    policy_file,        \* the last-applied policy file: {} or {document}
    lambdas,            \* remote: function name -> [Runtime, Role]
    roles,              \* remote: role name -> attached policies {} or {document}
    rest_apis,          \* remote: rest api id -> swagger document
    next_api_id,        \* remote: the id the next imported rest api gets
    pc,                 \* position of the running deploy
    stack,              \* return addresses
    existing_resources, \* _do_deploy's local: {} (None) or {record}
    record_read,        \* config.deployed_resources was called in this deploy
    deployed_values,    \* the accumulating dict: key -> value
    role_name,          \* argument of _get_or_create_lambda_role_arn
    role_arn,           \* its result
    lambda_name,        \* argument of _update_lambda_function
    function_arn,       \* ARN in the response of the last update_function
    idx,                \* position in builtin_auth_handlers
    unreferenced,       \* ARNs a loop over function ARNs still has to delete
    rest_api_id,        \* the gateway id the gateway phase works on
    grants_left,        \* authorizer ARNs still to be granted invoke permission
    calls,              \* remote calls and prompts of this deploy, in order
    outcome,            \* how the deploy ended: "" while running
    result,             \* the record deploy returned: {} or {record}
    faults,             \* remote calls that failed so far
    deploys,            \* operations (deploy, delete) started so far
    operation,          \* the operation that runs or ran last: "deploy" or "delete"
    previous,           \* the operation before this one: its outcome and inputs, and
                        \* the file and the roles this one started from
    chalice_dir,        \* the files of <project_dir>/.chalice: file name -> contents
    recorded_policy,    \* argument of the last record_policy: {} or {document}
    loaded_policy       \* what the last load_last_policy returned: {} or {document}

vars == <<config, prompter, deployed, policy_file, lambdas, roles, rest_apis,
          next_api_id, pc, stack, existing_resources, record_read,
          deployed_values, role_name, role_arn, lambda_name, function_arn, idx,
          unreferenced, rest_api_id, grants_left, calls, outcome, result,
          faults, deploys, operation, previous, chalice_dir, recorded_policy,
          loaded_policy>>

env == <<config, prompter>>
remote == <<lambdas, roles, rest_apis, next_api_id>>
locals == <<role_name, role_arn, lambda_name, function_arn, idx, unreferenced,
            rest_api_id, grants_left>>
policy_handler == <<chalice_dir, recorded_policy, loaded_policy>>

-----------------------------------------------------------------------------
(* Bounds of the model.                                                    *)

\* operations (deploy, delete) in one behaviour
MaxDeploys == 2

\* remote calls that may fail in one behaviour
MaxFaults == 1

-----------------------------------------------------------------------------
(* Names, ARNs and documents.                                              *)

DEFAULT_STAGE_NAME == "dev"

\* the stage a config names for the gateway
API_GATEWAY_DEFAULT_STAGE == "api"

AppName == "app"

StageName == DEFAULT_STAGE_NAME

AuthNames == <<"auth1", "auth2">>

DesiredRuntime == "python3.6"

OtherRuntime == "python2.7"

ExternalRoleArn == <<"arn:aws:iam::123:role", "external">>

\* arn:aws:lambda:<region>:<account>:function:<name>, split at ':'
FunctionArn(name) == <<"arn", "aws", "lambda", "us-west-2", "123", "function", name>>

\* arn:aws:iam::<account>:role/<name>, split at '/'
RoleArn(name) == <<"arn:aws:iam::123:role", name>>

NoArn == <<>>

\* the trust policy of a role: the service that may assume it
LAMBDA_TRUST_POLICY == "lambda.amazonaws.com"

_EMPTY_POLICY == [Version |-> "2012-10-17", Statement |-> <<>>]

Policy(statements) == [Version |-> "2012-10-17", Statement |-> statements]

LogsStatement == {"logs:CreateLogGroup", "logs:PutLogEvents"}

S3Statement == {"s3:GetObject"}

Documents ==
    { _EMPTY_POLICY,
      Policy(<<LogsStatement>>),
      Policy(<<LogsStatement, S3Statement>>),
      Policy(<<S3Statement, LogsStatement>>) }

-----------------------------------------------------------------------------
(* validate_configuration and the checks it calls.  Each operator is TRUE  *)
(* when the function of that name raises ValueError.                       *)

\* a route name is the sequence of its characters
EndsWithSlash(route_name) == Len(route_name) > 0 /\ route_name[Len(route_name)] = "/"

\* entry.cors is falsy when no CORS is configured
EntriesWithCors(route_methods) ==
    {m \in DOMAIN route_methods : route_methods[m].cors # ""}

_validate_cors_for_route(route_methods) ==
    LET entries_with_cors == EntriesWithCors(route_methods)
    IN  /\ entries_with_cors # {}
        /\ \/ "OPTIONS" \in DOMAIN route_methods
           \/ \E m1, m2 \in entries_with_cors :
                  route_methods[m1].cors # route_methods[m2].cors

validate_routes(routes) ==
    \E route_name \in DOMAIN routes :
        \/ route_name # <<"/">> /\ EndsWithSlash(route_name)
        \/ _validate_cors_for_route(routes[route_name])

_validate_entry_content_type(route_entry, binary_types) ==
    LET binary == route_entry.content_types \cap binary_types
        non_binary == route_entry.content_types \ binary_types
    IN  binary # {} /\ non_binary # {}

validate_route_content_types(routes, binary_types) ==
    \E route_name \in DOMAIN routes :
        \E m \in DOMAIN routes[route_name] :
            _validate_entry_content_type(routes[route_name][m], binary_types)

\* the role settings are not looked at
RoleSettingsNotValidated(c) == FALSE

\* iam_role_arn is NoArn when config.json gives none
_validate_manage_iam_role(c) ==
    ~c.manage_iam_role /\ c.iam_role_arn = NoArn

validate_configuration(c) ==
    \/ validate_routes(c.routes)
    \/ validate_route_content_types(c.routes, c.binary_types)
    \/ _validate_manage_iam_role(c)

-----------------------------------------------------------------------------
(* policy.diff_policies and the ApplicationPolicyHandler.                  *)

RECURSIVE _create_simple_format(_)
_create_simple_format(statements) ==
    IF statements = <<>> THEN {}
    ELSE Head(statements) \cup _create_simple_format(Tail(statements))

\* the dict diff_policies returns, as the set of its keys with their actions
diff_policies(old, new) ==
    LET old_actions == _create_simple_format(old.Statement)
        new_actions == _create_simple_format(new.Statement)
        removed == old_actions \ new_actions
        added == new_actions \ old_actions
    IN  [removed |-> removed, added |-> added]

\* an empty dict is falsy
DiffIsEmpty(diff) == diff.removed = {} /\ diff.added = {}

load_last_policy(file) ==
    IF file = {} THEN _EMPTY_POLICY ELSE CHOOSE d \in file : TRUE

generate_policy_from_app_source(c, file) ==
    IF c.autogen_policy THEN c.generated_policy ELSE load_last_policy(file)

\* the file is written with the document with no statement
RecordsEmptyPolicy(policy_document) == {_EMPTY_POLICY}

\* the file is not written
PolicyNotRecorded(policy_document) == {}

\* lines 796-803
record_policy(policy_document) == {policy_document}

-----------------------------------------------------------------------------
(* Helpers: dicts, the call log, exceptions.                               *)

Put(d, k, v) == (k :> v) @@ d

Remove(f, k) == [x \in DOMAIN f \ {k} |-> f[x]]

Values(f) == {f[x] : x \in DOMAIN f}

EmptyDict == <<>>

\* one entry of the log: a remote call (or a prompt) and how it ended
Entry(op) ==
    [op |-> op, name |-> "", arn |-> NoArn, role |-> NoArn, id |-> 0,
     trust |-> "", ok |-> TRUE, fault |-> FALSE, found |-> FALSE]

\* a probe and what it answered
Probed(entry, found) == [entry EXCEPT !.found = found]

Named(op, name) == [Entry(op) EXCEPT !.name = name]

OnArn(op, arn) == [Entry(op) EXCEPT !.arn = arn]

OnApi(op, id) == [Entry(op) EXCEPT !.id = id]

WithRole(op, name, arn) == [Entry(op) EXCEPT !.name = name, !.role = arn]

\* create_role and the trust policy it is given
WithTrust(name, trust_policy) ==
    [Entry("create_role") EXCEPT !.name = name, !.trust = trust_policy]

\* the tuple without LambdaClientError
ClientErrorOnly == {"ClientError"}

_AWSCLIENT_EXCEPTIONS == {"ClientError", "LambdaClientError"}

\* Deployer.deploy: what the caller of deploy sees when _do_deploy raises exc
Deployer_deploy(exc) ==
    IF exc \in _AWSCLIENT_EXCEPTIONS THEN "ChaliceDeploymentError" ELSE exc

\* an exception leaves _do_deploy: nothing after the raising statement runs
Raise(exc) ==
    /\ pc' = "done"
    /\ stack' = <<>>
    /\ outcome' = Deployer_deploy(exc)
    /\ result' = {}

\* a remote call fails with exc and changes nothing remotely
Fails(entry, exc) ==
    /\ faults < MaxFaults
    /\ faults' = faults + 1
    /\ calls' = Append(calls, [entry EXCEPT !.ok = FALSE, !.fault = TRUE])
    /\ Raise(exc)
    /\ UNCHANGED <<env, policy_handler, remote, locals, deployed, policy_file, existing_resources,
                   record_read, deployed_values, deploys, operation, previous>>

\* NoPrompt.confirm returns the default; the interactive prompter returns the
\* user's answer
Answers(default) == IF prompter = "NoPrompt" THEN {default} ELSE BOOLEAN

\* a prompt with abort=True is declined
Declined(prompt) ==
    /\ calls' = Append(calls, [Entry(prompt) EXCEPT !.ok = FALSE])
    /\ Raise("Abort")
    /\ UNCHANGED <<env, policy_handler, remote, locals, deployed, policy_file, existing_resources,
                   record_read, deployed_values, faults, deploys, operation, previous>>

\* call a method: continue at `to`, come back to `back`
Call(to, back) == pc' = to /\ stack' = <<back>> \o stack

Return == pc' = Head(stack) /\ stack' = Tail(stack)

Existing == CHOOSE r \in existing_resources : TRUE

-----------------------------------------------------------------------------
(* Deployer._do_deploy, first lines.                                       *)

\* the caller runs deploy (again); a record deploy returned is on disk by then
Invoke ==
    /\ pc \in {"idle", "done"}
    /\ deploys < MaxDeploys
    /\ deploys' = deploys + 1
    /\ operation' = "deploy"
    /\ deployed' = IF outcome = "ok" THEN result ELSE deployed
    /\ previous' = [outcome |-> outcome, deployed |-> deployed,
                    policy_file |-> policy_file, roles |-> roles]
    /\ pc' = "validate"
    /\ stack' = <<>>
    /\ existing_resources' = {}
    /\ record_read' = FALSE
    /\ deployed_values' = EmptyDict
    /\ role_name' = ""
    /\ role_arn' = NoArn
    /\ lambda_name' = ""
    /\ function_arn' = NoArn
    /\ idx' = 1
    /\ unreferenced' = {}
    /\ rest_api_id' = 0
    /\ grants_left' = {}
    /\ calls' = <<>>
    /\ outcome' = ""
    /\ result' = {}
    /\ UNCHANGED <<env, policy_handler, remote, policy_file, faults>>

Validate ==
    /\ pc = "validate"
    /\ IF validate_configuration(config)
       THEN /\ Raise("ValueError")
            /\ UNCHANGED <<existing_resources, record_read>>
       ELSE /\ existing_resources' = deployed
            /\ record_read' = TRUE
            /\ pc' = "deploy_api_handler"
            /\ UNCHANGED <<stack, outcome, result>>
    /\ UNCHANGED <<env, policy_handler, remote, locals, deployed, policy_file, deployed_values,
                   calls, faults, deploys, operation, previous>>

-----------------------------------------------------------------------------
(* LambdaDeployer._deploy_api_handler.                                     *)

\* the function named after the application alone
FunctionNameWithoutStage == AppName

DefaultFunctionName == AppName \o "-" \o StageName

\* the function is created without a role being resolved
FirstTimeLambdaCreateWithoutRole(function_name) ==
    /\ lambda_name' = function_name
    /\ pc' = "create_function"
    /\ UNCHANGED <<role_name, stack>>

\* the else branch: _first_time_lambda_create starts by resolving the role
FirstTimeLambdaCreate(function_name) ==
    /\ lambda_name' = function_name
    /\ role_name' = function_name
    /\ Call("get_role", "create_function")

RecordedHandlerName(record) == record.api_handler_name

DeployApiHandler ==
    /\ pc = "deploy_api_handler"
    /\ IF existing_resources = {}
       THEN /\ FirstTimeLambdaCreate(DefaultFunctionName)
            /\ UNCHANGED <<calls, faults, outcome, result>>
            /\ UNCHANGED <<env, policy_handler, remote, deployed, policy_file, existing_resources,
                           record_read, deployed_values, role_arn, function_arn, idx,
                           unreferenced, rest_api_id, grants_left, deploys, operation, previous>>
       ELSE LET handler_name == RecordedHandlerName(Existing)
                probe == Named("lambda_function_exists", handler_name)
            IN  \/ Fails(probe, "ClientError")
                \/ /\ calls' = Append(calls, Probed(probe, handler_name \in DOMAIN lambdas))
                   /\ IF handler_name \in DOMAIN lambdas
                      THEN /\ lambda_name' = handler_name
                           /\ pc' = "confirm_runtime"
                           /\ UNCHANGED <<stack, role_name>>
                      ELSE FirstTimeLambdaCreate(DefaultFunctionName)
                   /\ UNCHANGED <<faults, outcome, result>>
                   /\ UNCHANGED <<env, policy_handler, remote, deployed, policy_file,
                                  existing_resources, record_read, deployed_values,
                                  role_arn, function_arn, idx, unreferenced,
                                  rest_api_id, grants_left, deploys, operation, previous>>

\* the runtimes are never taken to differ
RuntimeNeverChanges(lambda_config, c) == FALSE

\* line 505
RuntimeChanges(lambda_config, c) == lambda_config.Runtime # c.lambda_python_version

\* _confirm_any_runtime_changes, then line 443: the role is resolved and line 444
\* calls _update_lambda_function
ConfirmRuntime ==
    /\ pc = "confirm_runtime"
    /\ LET describe == Named("get_function_configuration", lambda_name)
       IN  \/ Fails(describe, "ClientError")
           \/ /\ RuntimeChanges(lambdas[lambda_name], config)
              /\ \E answer \in Answers(TRUE) :
                    IF answer
                    THEN /\ calls' = calls \o <<describe, Entry("confirm_runtime")>>
                         /\ role_name' = lambda_name
                         /\ pc' = "get_role"
                         /\ stack' = <<"update_lambda_function", "api_handler_updated">>
                         /\ UNCHANGED <<env, policy_handler, remote, deployed, policy_file,
                              existing_resources, record_read, deployed_values,
                              role_arn, lambda_name, function_arn, idx, unreferenced,
                              rest_api_id, grants_left, faults, deploys, operation, previous,
                              outcome, result>>
                    ELSE /\ calls' = calls \o
                              <<describe, [Entry("confirm_runtime") EXCEPT !.ok = FALSE]>>
                         /\ Raise("Abort")
                         /\ UNCHANGED <<env, policy_handler, remote, locals, deployed, policy_file,
                              existing_resources, record_read, deployed_values,
                              faults, deploys, operation, previous>>
           \/ /\ ~RuntimeChanges(lambdas[lambda_name], config)
              /\ calls' = Append(calls, describe)
              /\ role_name' = lambda_name
              /\ pc' = "get_role"
              /\ stack' = <<"update_lambda_function", "api_handler_updated">>
              /\ UNCHANGED <<env, policy_handler, remote, deployed, policy_file, existing_resources,
                             record_read, deployed_values, role_arn, lambda_name,
                             function_arn, idx, unreferenced, rest_api_id, grants_left,
                             faults, deploys, operation, previous, outcome, result>>

\* lines 445-446 and 452
ApiHandlerUpdated ==
    /\ pc = "api_handler_updated"
    /\ deployed_values' =
           Put(Put(deployed_values, "api_handler_name", RecordedHandlerName(Existing)),
               "api_handler_arn", Existing.api_handler_arn)
    /\ pc' = "deploy_auth_handlers"
    /\ UNCHANGED <<env, policy_handler, remote, locals, deployed, policy_file, existing_resources,
                   record_read, stack, calls, outcome, result, faults, deploys, operation,
                   previous>>

-----------------------------------------------------------------------------
(* LambdaDeployer._get_or_create_lambda_role_arn and what it calls.         *)

\* what is left unchanged by a step of the role resolution that goes on
RoleFrame ==
    UNCHANGED <<env, policy_handler, lambdas, rest_apis, next_api_id, deployed, existing_resources,
                record_read, deployed_values, role_name, lambda_name, function_arn,
                idx, unreferenced, rest_api_id, grants_left, faults, deploys, operation,
                previous, outcome, result>>

\* every role is taken to be managed
ManagesEveryRole(c) == TRUE

\* lines 522-526: with an unmanaged role the configured ARN is the result
ManagesRole(c) == c.manage_iam_role

GetOrCreateLambdaRoleArn ==
    /\ pc = "get_role"
    /\ IF ~ManagesRole(config)
       THEN /\ role_arn' = config.iam_role_arn
            /\ Return
            /\ UNCHANGED <<calls, roles, policy_file>>
            /\ RoleFrame
       ELSE LET probe == Named("get_role_arn_for_name", role_name)
            IN  \/ Fails(probe, "ClientError")
                \/ /\ calls' = Append(calls, Probed(probe, role_name \in DOMAIN roles))
                   /\ IF role_name \in DOMAIN roles
                      THEN /\ role_arn' = RoleArn(role_name)
                           /\ pc' = "update_role_policy"
                      ELSE /\ pc' = "create_role"
                           /\ UNCHANGED role_arn
                   /\ UNCHANGED <<stack, roles, policy_file>>
                   /\ RoleFrame

\* the documents are compared, not the actions they grant
NeedsConfirmationIfDocumentsDiffer(previous_policy, app_policy) ==
    previous_policy # app_policy

\* _update_role_with_latest_policy, lines 540-557: the prompt is asked when the
\* diff is not empty
NeedsPolicyConfirmation(previous_policy, app_policy) ==
    ~DiffIsEmpty(diff_policies(previous_policy, app_policy))

UpdateRoleWithLatestPolicy ==
    /\ pc = "update_role_policy"
    /\ LET app_policy == generate_policy_from_app_source(config, policy_file)
           previous_policy == load_last_policy(policy_file)
           delete == Named("delete_role_policy", role_name)
           asked == NeedsPolicyConfirmation(previous_policy, app_policy)
           prompt == IF asked THEN <<Entry("confirm_policy")>> ELSE <<>>
       IN  \/ /\ asked
              /\ FALSE \in Answers(TRUE)
              /\ Declined("confirm_policy")
           \/ /\ faults < MaxFaults
              /\ faults' = faults + 1
              /\ calls' = calls \o prompt \o
                              <<[delete EXCEPT !.ok = FALSE, !.fault = TRUE]>>
              /\ Raise("ClientError")
              /\ UNCHANGED <<env, policy_handler, remote, locals, deployed, policy_file,
                             existing_resources, record_read, deployed_values,
                             deploys, operation, previous>>
           \/ /\ calls' = calls \o prompt \o <<delete>>
              /\ roles' = [roles EXCEPT ![role_name] = {}]
              /\ pc' = "put_role_policy"
              /\ UNCHANGED <<stack, role_arn, policy_file>>
              /\ RoleFrame

\* lines 558-561
PutRolePolicy ==
    /\ pc = "put_role_policy"
    /\ LET app_policy == generate_policy_from_app_source(config, policy_file)
           put == Named("put_role_policy", role_name)
       IN  \/ Fails(put, "ClientError")
           \/ /\ calls' = Append(calls, put)
              /\ roles' = [roles EXCEPT ![role_name] = {app_policy}]
              /\ policy_file' = record_policy(app_policy)
              /\ Return
              /\ UNCHANGED role_arn
              /\ RoleFrame

\* a document with one statement is shown and confirmed too
ConfirmsAnyStatement(app_policy) == Len(app_policy.Statement) > 0

\* _create_role_from_source_code, line 637
NeedsCreateConfirmation(app_policy) == Len(app_policy.Statement) > 1

CreateRoleFromSourceCode ==
    /\ pc = "create_role"
    /\ LET app_policy == generate_policy_from_app_source(config, policy_file)
           create == WithTrust(role_name, LAMBDA_TRUST_POLICY)
           asked == NeedsCreateConfirmation(app_policy)
           prompt == IF asked THEN <<Entry("confirm_create_role")>> ELSE <<>>
       IN  \/ /\ asked
              /\ FALSE \in Answers(TRUE)
              /\ Declined("confirm_create_role")
           \/ /\ faults < MaxFaults
              /\ faults' = faults + 1
              /\ calls' = calls \o prompt \o
                              <<[create EXCEPT !.ok = FALSE, !.fault = TRUE]>>
              /\ Raise("ClientError")
              /\ UNCHANGED <<env, policy_handler, remote, locals, deployed, policy_file,
                             existing_resources, record_read, deployed_values,
                             deploys, operation, previous>>
           \/ /\ calls' = calls \o prompt \o <<create>>
              /\ roles' = Put(roles, role_name, {app_policy})
              /\ policy_file' = record_policy(app_policy)
              /\ role_arn' = RoleArn(role_name)
              /\ Return
              /\ RoleFrame

-----------------------------------------------------------------------------
(* _update_lambda_function and _first_time_lambda_create.                  *)

\* lines 601-614: the package is prepared and the role resolved under the
\* function's own name
RoleNameForUpdate(name) == name

UpdateLambdaFunction ==
    /\ pc = "update_lambda_function"
    /\ role_name' = RoleNameForUpdate(lambda_name)
    /\ Call("get_role", "update_function")
    /\ UNCHANGED <<env, policy_handler, remote, deployed, policy_file, existing_resources,
                   record_read, deployed_values, role_arn, lambda_name, function_arn,
                   idx, unreferenced, rest_api_id, grants_left, calls, outcome,
                   result, faults, deploys, operation, previous>>

\* lines 616-625
UpdateFunction ==
    /\ pc = "update_function"
    /\ LET update == WithRole("update_function", lambda_name, role_arn)
       IN  \/ Fails(update, "LambdaClientError")
           \/ /\ calls' = Append(calls, update)
              /\ lambdas' = [lambdas EXCEPT ![lambda_name] =
                                [Runtime |-> config.lambda_python_version,
                                 Role |-> role_arn]]
              /\ function_arn' = FunctionArn(lambda_name)
              /\ Return
              /\ UNCHANGED <<env, policy_handler, roles, rest_apis, next_api_id, deployed, policy_file,
                             existing_resources, record_read, deployed_values,
                             role_name, role_arn, lambda_name, idx, unreferenced,
                             rest_api_id, grants_left, faults, deploys, operation, previous,
                             outcome, result>>

\* the service refuses to create a function whose name is taken
CreateConflicts(name) == name \in DOMAIN lambdas

\* lines 575-585, then 451-452
CreateFunction ==
    /\ pc = "create_function"
    /\ LET create == WithRole("create_function", lambda_name, role_arn)
       IN  \/ Fails(create, "LambdaClientError")
           \/ /\ CreateConflicts(lambda_name)
              /\ calls' = Append(calls, [create EXCEPT !.ok = FALSE])
              /\ Raise("LambdaClientError")
              /\ UNCHANGED <<env, policy_handler, remote, locals, deployed, policy_file,
                             existing_resources, record_read, deployed_values,
                             faults, deploys, operation, previous>>
           \/ /\ ~CreateConflicts(lambda_name)
              /\ calls' = Append(calls, create)
              /\ lambdas' = Put(lambdas, lambda_name,
                                [Runtime |-> config.lambda_python_version,
                                 Role |-> role_arn])
              /\ deployed_values' =
                     Put(Put(deployed_values, "api_handler_name", lambda_name),
                         "api_handler_arn", FunctionArn(lambda_name))
              /\ pc' = "deploy_auth_handlers"
              /\ UNCHANGED <<env, policy_handler, roles, rest_apis, next_api_id, deployed, policy_file,
                             existing_resources, record_read, stack, role_name,
                             role_arn, lambda_name, function_arn, idx, unreferenced,
                             rest_api_id, grants_left, faults, deploys, operation, previous,
                             outcome, result>>

-----------------------------------------------------------------------------
(* _deploy_auth_handlers and _deploy_auth_handler.                         *)

\* the authorizer's own name is the function's name
AuthFunctionNameWithoutHandler(api_handler_name, auth_name) == auth_name

\* line 479
AuthFunctionName(api_handler_name, auth_name) == api_handler_name \o "-" \o auth_name

\* line 474: the role an authorizer is deployed with is resolved under this name
AuthRoleName(api_handler_name, auth_name) == api_handler_name

\* lines 496-497
SetDefaultLambdaFunctions(d) ==
    IF "lambda_functions" \in DOMAIN d THEN d ELSE Put(d, "lambda_functions", EmptyDict)

RecordFunction(d, function_name, arn) ==
    LET e == SetDefaultLambdaFunctions(d)
    IN  Put(e, "lambda_functions", Put(e["lambda_functions"], function_name, arn))

\* the loop ends after the first authorizer
DoneAfterFirst(i, auth_handlers) == i > 1

\* line 464: the loop over the declared authorizers is over
AuthHandlersDone(i, auth_handlers) == i > Len(auth_handlers)

\* lines 460-468 and 473-475
DeployAuthHandlers ==
    /\ pc = "deploy_auth_handlers"
    /\ LET auth_handlers == config.builtin_auth_handlers
       IN  IF auth_handlers = <<>>
           THEN /\ deployed_values' = Put(deployed_values, "lambda_functions", EmptyDict)
                /\ pc' = "cleanup"
                /\ UNCHANGED <<stack, role_name>>
           ELSE IF AuthHandlersDone(idx, auth_handlers)
           THEN /\ pc' = "cleanup"
                /\ UNCHANGED <<stack, role_name, deployed_values>>
           ELSE /\ role_name' = AuthRoleName(deployed_values["api_handler_name"],
                                             auth_handlers[idx])
                /\ Call("get_role", "auth_probe")
                /\ UNCHANGED deployed_values
    /\ UNCHANGED <<env, policy_handler, remote, deployed, policy_file, existing_resources,
                   record_read, role_arn, lambda_name, function_arn, idx,
                   unreferenced, rest_api_id, grants_left, calls, outcome, result,
                   faults, deploys, operation, previous>>

\* lines 476-484
AuthProbe ==
    /\ pc = "auth_probe"
    /\ LET function_name == AuthFunctionName(deployed_values["api_handler_name"],
                                             config.builtin_auth_handlers[idx])
           probe == Named("lambda_function_exists", function_name)
       IN  \/ Fails(probe, "ClientError")
           \/ /\ calls' = Append(calls, Probed(probe, function_name \in DOMAIN lambdas))
              /\ lambda_name' = function_name
              /\ IF function_name \in DOMAIN lambdas
                 THEN Call("update_lambda_function", "auth_updated")
                 ELSE pc' = "auth_create" /\ UNCHANGED stack
              /\ UNCHANGED <<env, policy_handler, remote, deployed, policy_file, existing_resources,
                             record_read, deployed_values, role_name, role_arn,
                             function_arn, idx, unreferenced, rest_api_id,
                             grants_left, faults, deploys, operation, previous, outcome, result>>

\* lines 483 and 496-497
AuthUpdated ==
    /\ pc = "auth_updated"
    /\ deployed_values' = RecordFunction(deployed_values, lambda_name, function_arn)
    /\ idx' = idx + 1
    /\ pc' = "deploy_auth_handlers"
    /\ UNCHANGED <<env, policy_handler, remote, deployed, policy_file, existing_resources,
                   record_read, stack, role_name, role_arn, lambda_name, function_arn,
                   unreferenced, rest_api_id, grants_left, calls, outcome, result,
                   faults, deploys, operation, previous>>

\* lines 485-497
AuthCreate ==
    /\ pc = "auth_create"
    /\ LET create == WithRole("create_function", lambda_name, role_arn)
       IN  \/ Fails(create, "LambdaClientError")
           \/ /\ calls' = Append(calls, create)
              /\ lambdas' = Put(lambdas, lambda_name,
                                [Runtime |-> config.lambda_python_version,
                                 Role |-> role_arn])
              /\ deployed_values' =
                     RecordFunction(deployed_values, lambda_name, FunctionArn(lambda_name))
              /\ idx' = idx + 1
              /\ pc' = "deploy_auth_handlers"
              /\ UNCHANGED <<env, policy_handler, roles, rest_apis, next_api_id, deployed, policy_file,
                             existing_resources, record_read, stack, role_name,
                             role_arn, lambda_name, function_arn, unreferenced,
                             rest_api_id, grants_left, faults, deploys, operation, previous,
                             outcome, result>>

-----------------------------------------------------------------------------
(* LambdaDeployer.deploy, lines 421-424, and _cleanup_unreferenced_functions. *)

\* every recorded function counts as unreferenced
UnreferencedAllRecorded(record, values) == Values(record.lambda_functions)

Unreferenced(record, values) ==
    Values(record.lambda_functions) \ Values(values["lambda_functions"])

Cleanup ==
    /\ pc = "cleanup"
    /\ unreferenced' = IF existing_resources # {}
                       THEN Unreferenced(Existing, deployed_values)
                       ELSE {}
    /\ pc' = "delete_unreferenced"
    /\ UNCHANGED <<env, policy_handler, remote, deployed, policy_file, existing_resources,
                   record_read, stack, deployed_values, role_name, role_arn,
                   lambda_name, function_arn, idx, rest_api_id, grants_left, calls,
                   outcome, result, faults, deploys, operation, previous>>

\* the function an ARN names
NameOfArn(arn) == arn[Len(arn)]

\* no except clause
CatchesNothing(exc) == FALSE

\* the except clauses of lines 411 and 662
CatchesResourceDoesNotExist(exc) == exc = "ResourceDoesNotExistError"

\* lines 432-433; _delete_lambda_function swallows ResourceDoesNotExistError
\* and nothing else
DeleteUnreferenced ==
    /\ pc = "delete_unreferenced"
    /\ IF unreferenced = {}
       THEN /\ pc' = "apigateway_deploy"
            /\ UNCHANGED <<env, policy_handler, remote, locals, deployed, policy_file,
                           existing_resources, record_read, stack, deployed_values,
                           calls, outcome, result, faults, deploys, operation, previous>>
       ELSE \E arn \in unreferenced :
              LET delete == OnArn("delete_function", arn)
              IN  \/ Fails(delete, "ClientError")
                  \/ /\ NameOfArn(arn) \in DOMAIN lambdas
                     /\ calls' = Append(calls, delete)
                     /\ lambdas' = Remove(lambdas, NameOfArn(arn))
                     /\ unreferenced' = unreferenced \ {arn}
                     /\ UNCHANGED <<env, policy_handler, roles, rest_apis, next_api_id, deployed,
                                    policy_file, existing_resources, record_read, pc,
                                    stack, deployed_values, role_name, role_arn,
                                    lambda_name, function_arn, idx, rest_api_id,
                                    grants_left, outcome, result, faults, deploys,
                                    operation, previous>>
                  \/ /\ NameOfArn(arn) \notin DOMAIN lambdas
                     /\ calls' = Append(calls, [delete EXCEPT !.ok = FALSE])
                     /\ IF CatchesResourceDoesNotExist("ResourceDoesNotExistError")
                        THEN /\ unreferenced' = unreferenced \ {arn}
                             /\ UNCHANGED <<pc, stack, outcome, result>>
                        ELSE /\ Raise("ResourceDoesNotExistError")
                             /\ UNCHANGED unreferenced
                     /\ UNCHANGED <<env, policy_handler, remote, deployed, policy_file,
                                    existing_resources, record_read, deployed_values,
                                    role_name, role_arn, lambda_name, function_arn,
                                    idx, rest_api_id, grants_left, faults, deploys,
                                    operation, previous>>

-----------------------------------------------------------------------------
(* APIGatewayDeployer.deploy and the end of Deployer._do_deploy.           *)

\* what the swagger generator takes from the deployed values
SwaggerDoc(values) ==
    [handler |-> values["api_handler_arn"],
     authorizers |-> Values(values["lambda_functions"])]

EffectiveStage(c) ==
    IF c.api_gateway_stage # "" THEN c.api_gateway_stage ELSE DEFAULT_STAGE_NAME

GatewayFrame ==
    UNCHANGED <<env, policy_handler, lambdas, roles, deployed, policy_file, existing_resources,
                record_read, stack, deployed_values, role_name, role_arn, lambda_name,
                function_arn, idx, unreferenced, faults, deploys, operation, previous, outcome,
                result>>

\* the gateway is created anew whatever the record and the probe say
AlwaysFirstTimeDeploy(existing, found) == FALSE

\* lines 667-669: the condition of the update branch
UpdatesGateway(existing, found) == existing # {} /\ found

\* lines 667-675
ApiGatewayDeploy ==
    /\ pc = "apigateway_deploy"
    /\ IF existing_resources = {}
       THEN /\ pc' = IF UpdatesGateway(existing_resources, FALSE)
                     THEN "update_api_from_swagger" ELSE "import_rest_api"
            /\ UNCHANGED <<calls, rest_api_id, rest_apis, next_api_id, grants_left>>
            /\ GatewayFrame
       ELSE LET probe == OnApi("rest_api_exists", Existing.rest_api_id)
                found == Existing.rest_api_id \in DOMAIN rest_apis
            IN  \/ Fails(probe, "ClientError")
                \/ /\ calls' = Append(calls, Probed(probe, found))
                   /\ IF UpdatesGateway(existing_resources, found)
                      THEN /\ rest_api_id' = Existing.rest_api_id
                           /\ pc' = "update_api_from_swagger"
                      ELSE /\ pc' = "import_rest_api"
                           /\ UNCHANGED rest_api_id
                   /\ UNCHANGED <<rest_apis, next_api_id, grants_left>>
                   /\ GatewayFrame

\* _first_time_deploy, lines 679-688
ImportRestApi ==
    /\ pc = "import_rest_api"
    /\ LET import == OnApi("import_rest_api", next_api_id)
       IN  \/ Fails(import, "ClientError")
           \/ /\ calls' = Append(calls, import)
              /\ rest_apis' = Put(rest_apis, next_api_id,
                                  [swagger |-> SwaggerDoc(deployed_values),
                                   stages |-> {}])
              /\ next_api_id' = next_api_id + 1
              /\ rest_api_id' = next_api_id
              /\ pc' = "deploy_rest_api"
              /\ UNCHANGED grants_left
              /\ GatewayFrame

\* _create_resources_for_api, lines 697-700
UpdateApiFromSwagger ==
    /\ pc = "update_api_from_swagger"
    /\ LET update == OnApi("update_api_from_swagger", rest_api_id)
       IN  \/ Fails(update, "ClientError")
           \/ /\ calls' = Append(calls, update)
              /\ rest_apis' = [rest_apis EXCEPT ![rest_api_id].swagger =
                                                    SwaggerDoc(deployed_values)]
              /\ pc' = "deploy_rest_api"
              /\ UNCHANGED <<rest_api_id, next_api_id, grants_left>>
              /\ GatewayFrame

\* _deploy_api_to_stage, lines 710-711
DeployRestApi ==
    /\ pc = "deploy_rest_api"
    /\ LET publish == [OnApi("deploy_rest_api", rest_api_id)
                          EXCEPT !.name = EffectiveStage(config)]
       IN  \/ Fails(publish, "ClientError")
           \/ /\ calls' = Append(calls, publish)
              /\ rest_apis' = [rest_apis EXCEPT ![rest_api_id].stages =
                                                    @ \cup {EffectiveStage(config)}]
              /\ pc' = "add_permission"
              /\ UNCHANGED <<rest_api_id, next_api_id, grants_left>>
              /\ GatewayFrame

\* no authorizer is granted anything
NoAuthorizerGrants(values) == {}

\* lines 723-726: the functions that are granted as authorizers
AuthorizerGrants(values) == Values(values["lambda_functions"])

\* lines 712-723
AddPermission ==
    /\ pc = "add_permission"
    /\ LET api_handler_arn_parts == deployed_values["api_handler_arn"]
           function_name == api_handler_arn_parts[Len(api_handler_arn_parts)]
           grant == [OnApi("add_permission_for_apigateway_if_needed", rest_api_id)
                        EXCEPT !.name = function_name]
       IN  \/ Fails(grant, "ClientError")
           \/ /\ calls' = Append(calls, grant)
              /\ grants_left' = AuthorizerGrants(deployed_values)
              /\ pc' = "add_authorizer_permissions"
              /\ UNCHANGED <<rest_api_id, rest_apis, next_api_id>>
              /\ GatewayFrame

\* the dict _do_deploy returns for the stage
DeployedRecord(values, api_id, stage) ==
    [api_handler_name |-> values["api_handler_name"],
     api_handler_arn |-> values["api_handler_arn"],
     lambda_functions |-> values["lambda_functions"],
     rest_api_id |-> api_id,
     api_gateway_stage |-> stage,
     backend |-> "api"]

\* lines 724-728, then _do_deploy lines 347-358
AddAuthorizerPermissions ==
    /\ pc = "add_authorizer_permissions"
    /\ IF grants_left = {}
       THEN /\ pc' = "done"
            /\ outcome' = "ok"
            /\ result' = {DeployedRecord(deployed_values, rest_api_id,
                                         EffectiveStage(config))}
            /\ UNCHANGED <<env, policy_handler, remote, locals, deployed, policy_file,
                           existing_resources, record_read, stack, deployed_values,
                           calls, faults, deploys, operation, previous>>
       ELSE \E arn \in grants_left :
              LET grant == [OnArn("add_permission_for_authorizer", arn)
                               EXCEPT !.id = rest_api_id]
              IN  \/ Fails(grant, "ClientError")
                  \/ /\ calls' = Append(calls, grant)
                     /\ grants_left' = grants_left \ {arn}
                     /\ UNCHANGED <<pc, rest_api_id, rest_apis, next_api_id>>
                     /\ GatewayFrame

-----------------------------------------------------------------------------
(* Deployer.delete, APIGatewayDeployer.delete and LambdaDeployer.delete.   *)

\* the caller runs delete; a record deploy returned is on disk by then
InvokeDelete ==
    /\ pc \in {"idle", "done"}
    /\ deploys < MaxDeploys
    /\ deploys' = deploys + 1
    /\ operation' = "delete"
    /\ deployed' = IF outcome = "ok" THEN result ELSE deployed
    /\ previous' = [outcome |-> outcome, deployed |-> deployed,
                    policy_file |-> policy_file, roles |-> roles]
    /\ pc' = "delete"
    /\ stack' = <<>>
    /\ existing_resources' = {}
    /\ record_read' = FALSE
    /\ deployed_values' = EmptyDict
    /\ role_name' = ""
    /\ role_arn' = NoArn
    /\ lambda_name' = ""
    /\ function_arn' = NoArn
    /\ idx' = 1
    /\ unreferenced' = {}
    /\ rest_api_id' = 0
    /\ grants_left' = {}
    /\ calls' = <<>>
    /\ outcome' = ""
    /\ result' = {}
    /\ UNCHANGED <<env, policy_handler, remote, policy_file, faults>>

\* nothing catches an exception in Deployer.delete: the caller sees it as it is
RaiseInDelete(exc) ==
    /\ pc' = "done"
    /\ stack' = <<>>
    /\ outcome' = exc
    /\ result' = {}

\* delete returns
ReturnFromDelete ==
    /\ pc' = "done"
    /\ stack' = <<>>
    /\ outcome' = "deleted"
    /\ result' = {}

\* a remote call of delete fails with exc and changes nothing remotely
FailsInDelete(entry, exc) ==
    /\ faults < MaxFaults
    /\ faults' = faults + 1
    /\ calls' = Append(calls, [entry EXCEPT !.ok = FALSE, !.fault = TRUE])
    /\ RaiseInDelete(exc)
    /\ UNCHANGED <<env, policy_handler, remote, locals, deployed, policy_file, existing_resources,
                   record_read, deployed_values, deploys, operation, previous>>

\* the record is taken to be there
RecordNeverMissing(existing) == FALSE

\* line 311
NoExistingResources(existing) == existing = {}

\* the functions are deleted first and the gateway is left out
LambdaDeleteFirst == "delete_api_handler"

\* line 315: the gateway is deleted before anything else
DeployerDeleteFirst == "delete_rest_api"

\* Deployer.delete, lines 310-315
DeployerDelete ==
    /\ pc = "delete"
    /\ existing_resources' = deployed
    /\ record_read' = TRUE
    /\ IF NoExistingResources(deployed)
       THEN ReturnFromDelete
       ELSE /\ pc' = DeployerDeleteFirst
            /\ UNCHANGED <<stack, outcome, result>>
    /\ UNCHANGED <<env, policy_handler, remote, locals, deployed, policy_file, deployed_values,
                   calls, faults, deploys, operation, previous>>

\* what a step of delete that goes on leaves unchanged
DeleteFrame ==
    UNCHANGED <<env, policy_handler, next_api_id, deployed, policy_file, existing_resources,
                record_read, stack, deployed_values, lambda_name, function_arn, idx,
                rest_api_id, grants_left, faults, deploys, operation, previous,
                outcome, result>>

\* APIGatewayDeployer.delete; without a record the attribute access raises
DeleteRestApi ==
    /\ pc = "delete_rest_api"
    /\ IF existing_resources = {}
       THEN /\ RaiseInDelete("AttributeError")
            /\ UNCHANGED <<env, policy_handler, remote, locals, deployed, policy_file,
                           existing_resources, record_read, deployed_values, calls,
                           faults, deploys, operation, previous>>
       ELSE LET delete == OnApi("delete_rest_api", Existing.rest_api_id)
            IN  \/ FailsInDelete(delete, "ClientError")
                \/ /\ Existing.rest_api_id \in DOMAIN rest_apis
                   /\ calls' = Append(calls, delete)
                   /\ rest_apis' = Remove(rest_apis, Existing.rest_api_id)
                   /\ pc' = "delete_api_handler"
                   /\ UNCHANGED <<lambdas, roles, role_name, role_arn, unreferenced>>
                   /\ DeleteFrame
                \/ /\ Existing.rest_api_id \notin DOMAIN rest_apis
                   /\ calls' = Append(calls, [delete EXCEPT !.ok = FALSE])
                   /\ IF CatchesResourceDoesNotExist("ResourceDoesNotExistError")
                      THEN /\ pc' = "delete_api_handler"
                           /\ UNCHANGED <<stack, outcome, result>>
                      ELSE RaiseInDelete("ResourceDoesNotExistError")
                   /\ UNCHANGED <<env, policy_handler, remote, locals, deployed, policy_file,
                                  existing_resources, record_read, deployed_values,
                                  faults, deploys, operation, previous>>

\* _delete_api_handler, then line 400: the loop of _delete_auth_handlers starts
DeleteApiHandler ==
    /\ pc = "delete_api_handler"
    /\ IF existing_resources = {}
       THEN /\ RaiseInDelete("AttributeError")
            /\ UNCHANGED <<env, policy_handler, remote, locals, deployed, policy_file,
                           existing_resources, record_read, deployed_values, calls,
                           faults, deploys, operation, previous>>
       ELSE LET handler_name == Existing.api_handler_name
                delete == Named("delete_function", handler_name)
            IN  \/ FailsInDelete(delete, "ClientError")
                \/ /\ handler_name \in DOMAIN lambdas
                   /\ calls' = Append(calls, delete)
                   /\ lambdas' = Remove(lambdas, handler_name)
                   /\ unreferenced' = Values(Existing.lambda_functions)
                   /\ pc' = "delete_auth_handlers"
                   /\ UNCHANGED <<rest_apis, roles, role_name, role_arn>>
                   /\ DeleteFrame
                \/ /\ handler_name \notin DOMAIN lambdas
                   /\ calls' = Append(calls, [delete EXCEPT !.ok = FALSE])
                   /\ IF CatchesResourceDoesNotExist("ResourceDoesNotExistError")
                      THEN /\ unreferenced' = Values(Existing.lambda_functions)
                           /\ pc' = "delete_auth_handlers"
                           /\ UNCHANGED <<stack, outcome, result>>
                      ELSE /\ RaiseInDelete("ResourceDoesNotExistError")
                           /\ UNCHANGED unreferenced
                   /\ UNCHANGED <<env, policy_handler, remote, role_name, role_arn, lambda_name,
                                  function_arn, idx, rest_api_id, grants_left,
                                  deployed, policy_file, existing_resources,
                                  record_read, deployed_values, faults, deploys,
                                  operation, previous>>

\* _delete_auth_handlers, lines 400-404
DeleteAuthHandlers ==
    /\ pc = "delete_auth_handlers"
    /\ IF unreferenced = {}
       THEN /\ pc' = "delete_get_role"
            /\ UNCHANGED <<env, policy_handler, remote, locals, deployed, policy_file,
                           existing_resources, record_read, stack, deployed_values,
                           calls, outcome, result, faults, deploys, operation,
                           previous>>
       ELSE \E arn \in unreferenced :
              LET delete == OnArn("delete_function", arn)
              IN  \/ FailsInDelete(delete, "ClientError")
                  \/ /\ NameOfArn(arn) \in DOMAIN lambdas
                     /\ calls' = Append(calls, delete)
                     /\ lambdas' = Remove(lambdas, NameOfArn(arn))
                     /\ unreferenced' = unreferenced \ {arn}
                     /\ UNCHANGED <<pc, rest_apis, roles, role_name, role_arn>>
                     /\ DeleteFrame
                  \/ /\ NameOfArn(arn) \notin DOMAIN lambdas
                     /\ calls' = Append(calls, [delete EXCEPT !.ok = FALSE])
                     /\ IF CatchesResourceDoesNotExist("ResourceDoesNotExistError")
                        THEN /\ unreferenced' = unreferenced \ {arn}
                             /\ UNCHANGED <<pc, stack, outcome, result>>
                        ELSE /\ RaiseInDelete("ResourceDoesNotExistError")
                             /\ UNCHANGED unreferenced
                     /\ UNCHANGED <<env, policy_handler, remote, role_name, role_arn, lambda_name,
                                    function_arn, idx, rest_api_id, grants_left,
                                    deployed, policy_file, existing_resources,
                                    record_read, deployed_values, faults, deploys,
                                    operation, previous>>

\* the role is deleted unless the user says no
DeleteRoleDefaultYes == TRUE

\* line 386: default=False
DeleteRoleDefault == FALSE

\* the second part of the ARN, split at '/'
RoleNameOfArn(arn) == arn[2]

\* LambdaDeployer.delete, lines 380-387, with _get_lambda_role_arn
DeleteGetRole ==
    /\ pc = "delete_get_role"
    /\ LET name == Existing.api_handler_name
           probe == Named("get_role_arn_for_name", name)
           prompt == Named("confirm_delete_role", RoleNameOfArn(RoleArn(name)))
       IN  \/ FailsInDelete(probe, "ClientError")
           \/ /\ name \notin DOMAIN roles
              /\ calls' = Append(calls, Probed(probe, FALSE))
              /\ ReturnFromDelete
              /\ UNCHANGED <<env, policy_handler, remote, locals, deployed, policy_file,
                             existing_resources, record_read, deployed_values,
                             faults, deploys, operation, previous>>
           \/ /\ name \in DOMAIN roles
              /\ \E answer \in Answers(DeleteRoleDefault) :
                    IF answer
                    THEN /\ calls' = calls \o <<Probed(probe, TRUE), prompt>>
                         /\ role_arn' = RoleArn(name)
                         /\ role_name' = RoleNameOfArn(RoleArn(name))
                         /\ pc' = "delete_role"
                         /\ UNCHANGED <<lambdas, roles, rest_apis, unreferenced>>
                         /\ DeleteFrame
                    ELSE /\ calls' = calls \o
                              <<Probed(probe, TRUE), [prompt EXCEPT !.ok = FALSE]>>
                         /\ ReturnFromDelete
                         /\ UNCHANGED <<env, policy_handler, remote, locals, deployed, policy_file,
                                        existing_resources, record_read,
                                        deployed_values, faults, deploys, operation,
                                        previous>>

\* line 388
DeleteRole ==
    /\ pc = "delete_role"
    /\ LET delete == Named("delete_role", role_name)
       IN  \/ FailsInDelete(delete, "ClientError")
           \/ /\ calls' = Append(calls, delete)
              /\ roles' = Remove(roles, role_name)
              /\ ReturnFromDelete
              /\ UNCHANGED <<env, policy_handler, lambdas, rest_apis, next_api_id, locals, deployed,
                             policy_file, existing_resources, record_read,
                             deployed_values, faults, deploys, operation, previous>>

-----------------------------------------------------------------------------
(* The inputs: application definitions, configs, and the states a stage    *)
(* can be in when deploy is run.                                           *)

BinaryTypes == {"application/octet-stream"}

RouteEntry(cors, content_types) == [cors |-> cors, content_types |-> content_types]

PlainEntry == RouteEntry("", {"application/json"})

RouteEntries ==
    { PlainEntry,
      RouteEntry("cors-a", {"application/json"}),
      RouteEntry("cors-b", {"application/json"}),
      RouteEntry("", {"application/octet-stream"}),
      RouteEntry("", {"application/json", "application/octet-stream"}) }

RouteNames == { <<"/">>, <<"/", "i">>, <<"/", "i", "/">> }

\* one route with one method, or one route with GET and a second method
RouteTables ==
    { (r :> ("GET" :> e)) : r \in RouteNames, e \in RouteEntries }
    \cup { (<<"/", "i">> :> (("GET" :> e1) @@ (m :> e2))) :
              e1 \in RouteEntries, e2 \in RouteEntries, m \in {"OPTIONS", "POST"} }

DefaultRoutes == (<<"/", "i">> :> ("GET" :> PlainEntry))

GeneratedDefault == Policy(<<LogsStatement, S3Statement>>)

Config(manage, arn, route_table, auth_handlers, autogen, generated) ==
    [app_name |-> AppName,
     chalice_stage |-> StageName,
     iam_policy_file |-> "",
     manage_iam_role |-> manage,
     iam_role_arn |-> arn,
     routes |-> route_table,
     binary_types |-> BinaryTypes,
     builtin_auth_handlers |-> auth_handlers,
     lambda_python_version |-> DesiredRuntime,
     autogen_policy |-> autogen,
     generated_policy |-> generated,
     api_gateway_stage |-> ""]

\* a managed role, or a role ARN the user provides
RoleModes == { <<TRUE, NoArn>>, <<FALSE, ExternalRoleArn>> }

AuthHandlerLists == { <<>>, <<"auth1">>, <<"auth1", "auth2">> }

AuthSet == {"auth1", "auth2"}

LegacyFunctionName == AppName

PriorRecord(handler, auths) ==
    [api_handler_name |-> handler,
     api_handler_arn |-> FunctionArn(handler),
     lambda_functions |->
         [n \in {AuthFunctionName(handler, a) : a \in auths} |-> FunctionArn(n)],
     rest_api_id |-> 1,
     api_gateway_stage |-> API_GATEWAY_DEFAULT_STAGE,
     backend |-> "api"]

LiveFunction(runtime, arn) == [Runtime |-> runtime, Role |-> arn]

Scenario(c, p, d, f, l, r, a) ==
    [config |-> c, prompter |-> p, deployed |-> d, policy_file |-> f,
     lambdas |-> l, roles |-> r, rest_apis |-> a]

\* nothing was deployed: no record, nothing remote
Pristine(c, p) == Scenario(c, p, {}, {}, EmptyDict, EmptyDict, EmptyDict)

\* a stage deployed before under `handler` with authorizers `auths`, of which the
\* functions `live` still exist
Deployed(c, p, handler, auths, handler_runtimes, live, file, role_policies, gateways) ==
    LET arn == IF c.manage_iam_role THEN RoleArn(handler) ELSE c.iam_role_arn
    IN  Scenario(c, p, {PriorRecord(handler, auths)}, file,
                 [n \in {handler : x \in handler_runtimes} |->
                      LiveFunction(CHOOSE x \in handler_runtimes : TRUE, arn)]
                 @@ [n \in {AuthFunctionName(handler, a) : a \in live} |->
                        LiveFunction(DesiredRuntime, arn)],
                 IF c.manage_iam_role
                 THEN [n \in {handler : x \in role_policies} |->
                          {CHOOSE x \in role_policies : TRUE}]
                 ELSE EmptyDict,
                 [i \in {1 : x \in gateways} |->
                      [swagger |-> [handler |-> FunctionArn(handler),
                                    authorizers |->
                                        {FunctionArn(AuthFunctionName(handler, a)) :
                                             a \in auths}],
                       stages |-> {API_GATEWAY_DEFAULT_STAGE}]])

\* application definitions of every kind, deployed for the first time
ValidationScenarios ==
    { Pristine(Config(m[1], m[2], t, <<>>, TRUE, GeneratedDefault), "NoPrompt") :
          m \in RoleModes \cup {<<FALSE, NoArn>>}, t \in RouteTables }

\* first deploys
FirstScenarios ==
    { Pristine([Config(m[1], m[2], DefaultRoutes, hs, TRUE, g)
                   EXCEPT !.api_gateway_stage = st], p) :
          m \in RoleModes, hs \in AuthHandlerLists,
          g \in {Policy(<<LogsStatement>>), GeneratedDefault},
          p \in {"NoPrompt", "Interactive"},
          st \in {"", API_GATEWAY_DEFAULT_STAGE} }

\* redeploys over what an earlier deploy left, part of which may be gone
RedeployScenarios ==
    { Deployed(Config(m[1], m[2], DefaultRoutes, hs, TRUE, GeneratedDefault),
               "Interactive", h, as, rt, live, {GeneratedDefault},
               {GeneratedDefault}, gw) :
          m \in RoleModes, hs \in AuthHandlerLists,
          h \in {DefaultFunctionName, LegacyFunctionName},
          as \in {{}, AuthSet},
          rt \in {{}, {DesiredRuntime}, {OtherRuntime}},
          live \in {{}, {"auth1"}, AuthSet},
          gw \in {{}, {1}} }

\* redeploys with every state of the policy file and the generated policy
PolicyScenarios ==
    { Deployed(Config(TRUE, NoArn, DefaultRoutes, <<>>, autogen, g), p,
               DefaultFunctionName, {}, {DesiredRuntime}, {}, f, rp, {1}) :
          autogen \in BOOLEAN, g \in Documents, p \in {"NoPrompt", "Interactive"},
          f \in {{}} \cup {{d} : d \in Documents},
          rp \in {{}, {GeneratedDefault}} }

\* a role the user provides may bear any name, the function's own included
ProvidedRoleModes == RoleModes \cup { <<FALSE, RoleArn(DefaultFunctionName)>> }

\* the name of the role the functions of a config run under
IdentityName(c, handler) ==
    IF c.manage_iam_role THEN handler ELSE RoleNameOfArn(c.iam_role_arn)

\* deployed stages about to be deleted: the role, the gateway and the functions
\* are there or already gone
DeleteScenarios ==
    { [Deployed(Config(m[1], m[2], DefaultRoutes, <<>>, TRUE, GeneratedDefault), p,
                DefaultFunctionName, as, rt, live, {GeneratedDefault},
                {GeneratedDefault}, gw)
          EXCEPT !.roles = [n \in {IdentityName(Config(m[1], m[2], DefaultRoutes, <<>>,
                                                      TRUE, GeneratedDefault),
                                               DefaultFunctionName) : x \in rl} |->
                               {GeneratedDefault}]] :
          m \in ProvidedRoleModes, p \in {"NoPrompt", "Interactive"},
          as \in {{}, AuthSet}, rt \in {{}, {DesiredRuntime}},
          live \in {{}, {"auth1"}}, gw \in {{}, {1}}, rl \in {{}, {1}} }

Scenarios ==
    ValidationScenarios \cup FirstScenarios \cup RedeployScenarios
        \cup PolicyScenarios \cup DeleteScenarios

Init ==
    /\ \E s \in Scenarios :
          /\ config = s.config
          /\ prompter = s.prompter
          /\ deployed = s.deployed
          /\ policy_file = s.policy_file
          /\ lambdas = s.lambdas
          /\ roles = s.roles
          /\ rest_apis = s.rest_apis
          /\ next_api_id = IF s.deployed = {} THEN 1 ELSE 2
    /\ pc = "idle"
    /\ stack = <<>>
    /\ existing_resources = {}
    /\ record_read = FALSE
    /\ deployed_values = EmptyDict
    /\ role_name = ""
    /\ role_arn = NoArn
    /\ lambda_name = ""
    /\ function_arn = NoArn
    /\ idx = 1
    /\ unreferenced = {}
    /\ rest_api_id = 0
    /\ grants_left = {}
    /\ calls = <<>>
    /\ outcome = ""
    /\ result = {}
    /\ faults = 0
    /\ deploys = 0
    /\ operation = ""
    /\ previous = [outcome |-> "", deployed |-> {}, policy_file |-> {},
                   roles |-> EmptyDict]
    /\ chalice_dir = EmptyDict
    /\ recorded_policy = {}
    /\ loaded_policy = {}

Next ==
    \/ Invoke
    \/ Validate
    \/ DeployApiHandler
    \/ ConfirmRuntime
    \/ ApiHandlerUpdated
    \/ GetOrCreateLambdaRoleArn
    \/ UpdateRoleWithLatestPolicy
    \/ PutRolePolicy
    \/ CreateRoleFromSourceCode
    \/ UpdateLambdaFunction
    \/ UpdateFunction
    \/ CreateFunction
    \/ DeployAuthHandlers
    \/ AuthProbe
    \/ AuthUpdated
    \/ AuthCreate
    \/ Cleanup
    \/ DeleteUnreferenced
    \/ ApiGatewayDeploy
    \/ ImportRestApi
    \/ UpdateApiFromSwagger
    \/ DeployRestApi
    \/ AddPermission
    \/ AddAuthorizerPermissions
    \/ InvokeDelete
    \/ DeployerDelete
    \/ DeleteRestApi
    \/ DeleteApiHandler
    \/ DeleteAuthHandlers
    \/ DeleteGetRole
    \/ DeleteRole

Spec == Init /\ [][Next]_vars

-----------------------------------------------------------------------------
(* Reading the call log.                                                   *)

Indices(op) == {i \in 1..Len(calls) : calls[i].op = op}

\* the names a primary function goes by: <app>-<stage>, or the name a record holds
PrimaryNames == {AppName \o "-" \o StageName, AppName}

PrimaryCalls(op) == {i \in Indices(op) : calls[i].name \in PrimaryNames}

AuthorizerCalls(op) == {i \in Indices(op) : calls[i].name \notin PrimaryNames}

HandlerResolved == "api_handler_name" \in DOMAIN deployed_values

Deleted == {calls[i].arn : i \in Indices("delete_function")}

MutatingOps ==
    {"create_function", "update_function", "delete_function", "create_role",
     "delete_role_policy", "put_role_policy", "import_rest_api",
     "update_api_from_swagger", "deploy_rest_api",
     "add_permission_for_apigateway_if_needed", "add_permission_for_authorizer"}

IdentityOps ==
    {"get_role_arn_for_name", "create_role", "delete_role_policy", "put_role_policy"}

Prompts == {"confirm_runtime", "confirm_policy", "confirm_create_role"}

-----------------------------------------------------------------------------
(* The claims.                                                             *)

\* C1: with no prior record the primary function is created as <app>-<stage>
\* without any probe of a prior name; with a prior record the function is
\* probed first, by the recorded name, and it is updated under that name
\* exactly when the probe found it, and created as <app>-<stage> otherwise.
\* No deploy both creates and updates the primary function.
C1_PrimaryReconciliation ==
    LET probes == PrimaryCalls("lambda_function_exists")
        creates == PrimaryCalls("create_function")
        updates == PrimaryCalls("update_function")
        created_name == AppName \o "-" \o StageName
    IN  /\ \A i \in creates : calls[i].name = created_name
        /\ ~(creates # {} /\ updates # {})
        /\ Cardinality(creates) <= 1 /\ Cardinality(updates) <= 1
        /\ (record_read /\ existing_resources = {}) =>
              /\ probes = {}
              /\ updates = {}
              /\ HandlerResolved =>
                    /\ deployed_values["api_handler_name"] = created_name
                    /\ \E i \in creates : calls[i].ok
        /\ existing_resources # {} =>
              /\ probes \subseteq {1}
              /\ \A i \in probes : calls[i].name = Existing.api_handler_name
              /\ (creates # {} \/ updates # {} \/ HandlerResolved) =>
                    probes = {1} /\ calls[1].ok
              /\ updates # {} =>
                    /\ calls[1].found
                    /\ \A i \in updates : calls[i].name = Existing.api_handler_name
              /\ creates # {} => ~calls[1].found
              /\ HandlerResolved =>
                    IF calls[1].found
                    THEN /\ deployed_values["api_handler_name"] =
                                Existing.api_handler_name
                         /\ \E i \in updates : calls[i].ok
                    ELSE /\ deployed_values["api_handler_name"] = created_name
                         /\ \E i \in creates : calls[i].ok

\* a stale record: the recorded function is gone and <app>-<stage> was created
C1_Witness ==
    /\ outcome = "ok"
    /\ existing_resources # {}
    /\ Existing.api_handler_name = AppName
    /\ ~calls[1].found
    /\ PrimaryCalls("create_function") # {}

\* C2: once garbage collection is over, the functions a delete call was issued
\* for are exactly the ARNs of the prior record's function mapping that are
\* not in the new function mapping; before that only such ARNs are deleted;
\* neither the primary function nor a function of the new mapping is deleted,
\* and without a prior record nothing is.
C2_GarbageCollection ==
    LET recorded == IF existing_resources = {} THEN {}
                    ELSE {Existing.lambda_functions[n] :
                              n \in DOMAIN Existing.lambda_functions}
        kept == IF "lambda_functions" \in DOMAIN deployed_values
                THEN {deployed_values["lambda_functions"][n] :
                          n \in DOMAIN deployed_values["lambda_functions"]}
                ELSE {}
        collected == pc \in {"apigateway_deploy", "import_rest_api",
                             "update_api_from_swagger", "deploy_rest_api",
                             "add_permission", "add_authorizer_permissions"}
                     \/ outcome = "ok"
    IN  operation = "deploy" =>
            /\ Deleted \subseteq recorded \ kept
            /\ collected => Deleted = recorded \ kept
            /\ existing_resources = {} => Deleted = {}
            /\ HandlerResolved => deployed_values["api_handler_arn"] \notin Deleted
            /\ \A i, j \in Indices("delete_function") :
                  calls[i].arn = calls[j].arn => i = j

\* one recorded authorizer is kept and another is deleted
C2_Witness ==
    /\ operation = "deploy"
    /\ outcome = "ok"
    /\ Deleted # {}
    /\ \E n \in DOMAIN Existing.lambda_functions :
          Existing.lambda_functions[n] \notin Deleted

\* the running deploy met no failing service and no declined prompt
Undisturbed ==
    /\ \A i \in 1..Len(calls) : ~calls[i].fault
    /\ \A i \in 1..Len(calls) : calls[i].op \in Prompts => calls[i].ok

\* the running deploy retries one that a failed remote call aborted: the
\* application, the config and the prior record are the same
IsRetry ==
    /\ previous.outcome = "ChaliceDeploymentError"
    /\ previous.deployed = deployed

\* C3: a deploy that retries a deploy aborted by a failed remote call, and
\* meets no failure of its own, completes successfully.
C3_RetryCompletes ==
    (operation = "deploy" /\ pc = "done" /\ IsRetry /\ Undisturbed) => outcome = "ok"

\* a remote call that failed, other than a delete of a function that is gone
FailedCalls ==
    {i \in 1..Len(calls) :
        /\ ~calls[i].ok
        /\ calls[i].op \notin Prompts
        /\ ~(calls[i].op = "delete_function" /\ ~calls[i].fault)}

\* C4: a failed remote call is the last call of its deploy, the deploy ends
\* with the deployment error and returns no record; a record is returned only
\* by a deploy in which no call failed.
C4_FailureAborts ==
    operation = "deploy" =>
        /\ \A i \in FailedCalls :
              /\ i = Len(calls)
              /\ pc = "done"
              /\ outcome = "ChaliceDeploymentError"
              /\ result = {}
        /\ result # {} => (pc = "done" /\ outcome = "ok" /\ FailedCalls = {})
        /\ outcome = "ok" => result # {}
        /\ outcome = "ChaliceDeploymentError" => FailedCalls # {}

\* the gateway import fails after the function was created
C4_Witness ==
    /\ outcome = "ChaliceDeploymentError"
    /\ Len(calls) > 1
    /\ calls[Len(calls)].op = "import_rest_api"
    /\ calls[Len(calls)].fault
    /\ \E i \in Indices("create_function") : calls[i].ok

\* the application definitions and configs validation is to reject
C5_Invalid(c) ==
    \/ \E r \in DOMAIN c.routes :
          \/ r # <<"/">> /\ r[Len(r)] = "/"
          \/ \E m \in DOMAIN c.routes[r] :
                LET types == c.routes[r][m].content_types
                IN  types \cap c.binary_types # {} /\ types \ c.binary_types # {}
          \/ \E m \in DOMAIN c.routes[r] :
                c.routes[r][m].cors # "" /\ "OPTIONS" \in DOMAIN c.routes[r]
          \/ \E m1, m2 \in DOMAIN c.routes[r] :
                /\ c.routes[r][m1].cors # ""
                /\ c.routes[r][m2].cors # ""
                /\ c.routes[r][m1].cors # c.routes[r][m2].cors
    \/ ~c.manage_iam_role /\ c.iam_role_arn = <<>>

\* C5: a deploy of an invalid application definition or config issues no
\* remote call, does not read the prior record, changes nothing, and ends
\* with the ValueError itself.
C5_ValidationFirst ==
    (C5_Invalid(config) /\ operation = "deploy") =>
        /\ pc \in {"validate", "done"}
        /\ calls = <<>>
        /\ ~record_read
        /\ result = {}
        /\ pc = "done" => outcome = "ValueError"

\* CORS together with an OPTIONS method was rejected
C5_Witness ==
    /\ pc = "done"
    /\ outcome = "ValueError"
    /\ \E r \in DOMAIN config.routes :
          /\ "OPTIONS" \in DOMAIN config.routes[r]
          /\ config.routes[r]["GET"].cors # ""

C6_External == ~config.manage_iam_role /\ config.iam_role_arn # <<>>

\* C6: with a role ARN the user provides, a deploy issues no identity call and
\* asks no identity confirmation, every function is created or updated with
\* that ARN, and no step changes the policy file or a role.
C6_ExternalIdentity ==
    /\ []((C6_External /\ operation = "deploy") =>
            /\ \A i \in 1..Len(calls) :
                  /\ calls[i].op \notin IdentityOps
                  /\ calls[i].op \notin {"confirm_policy", "confirm_create_role"}
                  /\ calls[i].op \in {"create_function", "update_function"} =>
                        calls[i].role = config.iam_role_arn
            /\ role_arn \in {<<>>, config.iam_role_arn})
    /\ [][(C6_External /\ operation = "deploy") =>
             (policy_file' = policy_file /\ roles' = roles)]_vars

\* an authorizer was created and another updated with the provided role
C6_Witness ==
    /\ C6_External
    /\ outcome = "ok"
    /\ AuthorizerCalls("create_function") # {}
    /\ AuthorizerCalls("update_function") # {}
    /\ PrimaryCalls("update_function") # {}

\* C7: with a managed identity every authorizer function is created or
\* updated with the identity resolved for the API handler, and no identity
\* is probed or created under another name than the API handler's.
C7_AuthorizersShareIdentity ==
    (operation = "deploy" /\ config.manage_iam_role /\ HandlerResolved) =>
        LET handler == deployed_values["api_handler_name"]
        IN  /\ \A i \in AuthorizerCalls("create_function")
                     \cup AuthorizerCalls("update_function") :
                  calls[i].ok => calls[i].role = <<"arn:aws:iam::123:role", handler>>
            /\ \A i \in 1..Len(calls) :
                  calls[i].op \in IdentityOps => calls[i].name = handler

\* the actions a document grants
C8_Actions(document) ==
    UNION {document.Statement[i] : i \in DOMAIN document.Statement}

\* the document a deploy generates
C8_Generated ==
    IF config.autogen_policy THEN config.generated_policy
    ELSE IF policy_file = {} THEN [Version |-> "2012-10-17", Statement |-> <<>>]
    ELSE CHOOSE d \in policy_file : TRUE

C8_LastApplied ==
    IF policy_file = {} THEN [Version |-> "2012-10-17", Statement |-> <<>>]
    ELSE CHOOSE d \in policy_file : TRUE

\* C8: on an existing managed identity the attached policy is replaced only
\* after the probe found the identity and, exactly when the generated document
\* grants other actions than the last-applied one, after a confirmation was
\* given (the default answer is to proceed); a declined confirmation ends the
\* deploy with the policy and the file untouched; a completed replacement attaches the generated document
\* and writes it to the file, and nothing else of the update path writes it.
C8_PolicyConsentGate ==
    /\ [](pc = "put_role_policy" =>
            LET n == Len(calls)
                differs == C8_Actions(C8_Generated) # C8_Actions(C8_LastApplied)
            IN  /\ n >= 2
                /\ calls[n].op = "delete_role_policy" /\ calls[n].ok
                /\ IF differs
                   THEN /\ n >= 3
                        /\ calls[n - 1].op = "confirm_policy" /\ calls[n - 1].ok
                        /\ calls[n - 2].op = "get_role_arn_for_name"
                        /\ calls[n - 2].found
                   ELSE /\ calls[n - 1].op = "get_role_arn_for_name"
                        /\ calls[n - 1].found)
    /\ [](\A i \in Indices("put_role_policy") :
             i > 1 /\ calls[i - 1].op = "delete_role_policy")
    /\ [](prompter = "NoPrompt" =>
             \A i \in Indices("confirm_policy") : calls[i].ok)
    /\ [][(pc = "update_role_policy" /\ outcome' = "Abort") =>
             (policy_file' = policy_file /\ roles' = roles)]_vars
    /\ [][(pc = "put_role_policy" /\ pc' # "done") =>
             /\ policy_file' = {C8_Generated}
             /\ roles'[role_name] = {C8_Generated}]_vars
    /\ [][policy_file' # policy_file =>
             /\ pc \in {"put_role_policy", "create_role"}
             /\ calls'[Len(calls')].op \in {"put_role_policy", "create_role"}
             /\ calls'[Len(calls')].ok]_vars
    /\ [][(calls' # <<>> /\ calls' # calls /\ calls'[Len(calls')].op = "confirm_policy"
              /\ ~calls'[Len(calls')].ok) => outcome' = "Abort"]_vars

\* the diff was not empty, the confirmation was given and the old policy removed
C8_Witness ==
    /\ pc = "put_role_policy"
    /\ calls[Len(calls) - 1].op = "confirm_policy"
    /\ calls[Len(calls) - 1].ok
    /\ policy_file # {}
    /\ policy_file # {C8_Generated}

\* C9: a runtime confirmation is the third entry of a deploy, right after the
\* probe and the description of the recorded primary function, so before any
\* mutating call; it is asked exactly when the live runtime differs from the
\* desired one, and the default answer is to proceed; declined, the deploy ends as a user cancellation with no
\* mutating call issued; an authorizer is never described or asked about.
C9_RuntimeGate ==
    /\ \A i \in Indices("confirm_runtime") :
          /\ i = 3
          /\ calls[1].op = "lambda_function_exists" /\ calls[1].found
          /\ calls[2].op = "get_function_configuration"
          /\ calls[2].name = Existing.api_handler_name
          /\ ~calls[i].ok =>
                /\ pc = "done"
                /\ outcome = "Abort"
                /\ Len(calls) = 3
                /\ \A j \in 1..Len(calls) : calls[j].op \notin MutatingOps
    /\ \A i \in Indices("get_function_configuration") :
          i = 2 /\ calls[i].name = Existing.api_handler_name
    /\ prompter = "NoPrompt" => \A i \in Indices("confirm_runtime") : calls[i].ok
    /\ (Len(calls) >= 2 /\ calls[2].op = "get_function_configuration" /\ calls[2].ok
            /\ \A j \in PrimaryCalls("update_function") : ~calls[j].ok) =>
          LET live == lambdas[calls[2].name].Runtime
          IN  (live # "python3.6") <=>
                  (Len(calls) >= 3 /\ calls[3].op = "confirm_runtime")

\* the runtime differs and the confirmation was declined
C9_Witness ==
    /\ outcome = "Abort"
    /\ Len(calls) = 3
    /\ calls[3].op = "confirm_runtime"
    /\ ~calls[3].ok

\* the number of calls of one kind
C10_Count(op) == Cardinality(Indices(op))

\* C10: the first deploy of an application without authorizers and with a
\* managed identity, over nothing, issues one function creation, for
\* <app>-<stage>, one identity creation, one gateway creation, one stage
\* publication and one invoke-permission grant, no update and no delete, and
\* returns a record with an empty function mapping.
C10_FirstDeploy ==
    (/\ deploys = 1
     /\ outcome = "ok"
     /\ existing_resources = {}
     /\ config.manage_iam_role
     /\ config.builtin_auth_handlers = <<>>) =>
        /\ C10_Count("create_function") = 1
        /\ \A i \in Indices("create_function") : calls[i].name = "app-dev"
        /\ C10_Count("create_role") = 1
        /\ C10_Count("import_rest_api") = 1
        /\ C10_Count("deploy_rest_api") = 1
        /\ C10_Count("add_permission_for_apigateway_if_needed") = 1
        /\ \A op \in {"update_function", "update_api_from_swagger",
                      "delete_function", "delete_role_policy", "put_role_policy",
                      "add_permission_for_authorizer"} : C10_Count(op) = 0
        /\ \A r \in result : r.lambda_functions = <<>>
        /\ result # {}
        /\ DOMAIN lambdas = {"app-dev"}

\* such a first deploy ended well
C10_Witness ==
    /\ deploys = 1
    /\ outcome = "ok"
    /\ existing_resources = {}
    /\ config.manage_iam_role
    /\ config.builtin_auth_handlers = <<>>
    /\ prompter = "NoPrompt"

\* the running deploy follows a deploy that succeeded and reads the record that
\* one returned; the application, the config and the remote state are as it
\* left them
C11_Redeploy == operation = "deploy" /\ previous.outcome = "ok"

\* C11: a deploy that follows a successful deploy of the same application and
\* config, with the record that one returned, never creates the primary
\* function or a gateway and asks no policy-diff confirmation; it updates the
\* recorded primary function and the recorded gateway, once each when it
\* ends well, and it ends well unless a call fails or a prompt is declined.
C11_UnchangedRedeploy ==
    C11_Redeploy =>
        /\ record_read => (existing_resources = deployed /\ existing_resources # {})
        /\ PrimaryCalls("create_function") = {}
        /\ Indices("import_rest_api") = {}
        /\ Indices("confirm_policy") = {}
        /\ \A i \in PrimaryCalls("update_function") :
              calls[i].name = Existing.api_handler_name
        /\ \A i \in Indices("update_api_from_swagger") :
              calls[i].id = Existing.rest_api_id
        /\ (pc = "done" /\ Undisturbed) =>
              /\ outcome = "ok"
              /\ Cardinality({i \in PrimaryCalls("update_function") : calls[i].ok}) = 1
              /\ Cardinality({i \in Indices("update_api_from_swagger") : calls[i].ok}) = 1
              /\ \A r \in result : r.rest_api_id = Existing.rest_api_id

\* a redeploy of an application with authorizers and a managed role ended well
C11_Witness ==
    /\ C11_Redeploy
    /\ outcome = "ok"
    /\ config.manage_iam_role
    /\ config.builtin_auth_handlers # <<>>
    /\ PrimaryCalls("update_function") # {}

\* the authorizers the application declares
C12_Declared ==
    {config.builtin_auth_handlers[i] : i \in DOMAIN config.builtin_auth_handlers}

\* C12: the record a successful deploy returns names the primary function this
\* deploy created or updated, and its function mapping has exactly the keys
\* <that name>-<authorizer> of the declared authorizers, each mapped to the
\* ARN of the function of that name, which this deploy created or updated;
\* without authorizers the mapping is there and empty.
C12_RecordedMapping ==
    (operation = "deploy" /\ outcome = "ok") =>
        \A r \in result :
            LET keys == {r.api_handler_name \o "-" \o a : a \in C12_Declared}
                written == Indices("create_function") \cup Indices("update_function")
            IN  /\ \E i \in PrimaryCalls("create_function")
                            \cup PrimaryCalls("update_function") :
                       calls[i].ok /\ calls[i].name = r.api_handler_name
                /\ DOMAIN r.lambda_functions = keys
                /\ \A k \in keys :
                      /\ r.lambda_functions[k] =
                             <<"arn", "aws", "lambda", "us-west-2", "123", "function", k>>
                      /\ \E i \in written : calls[i].ok /\ calls[i].name = k
                /\ C12_Declared = {} => r.lambda_functions = <<>>

\* two authorizers under a legacy handler name: one updated, one created
C12_Witness ==
    /\ operation = "deploy"
    /\ outcome = "ok"
    /\ \E r \in result :
          /\ r.api_handler_name = "app"
          /\ DOMAIN r.lambda_functions = {"app-auth1", "app-auth2"}
    /\ AuthorizerCalls("create_function") # {}
    /\ AuthorizerCalls("update_function") # {}

\* C13: a gateway is probed only by the id of a prior record and at most once;
\* when the probe finds the recorded gateway, the routing document is pushed
\* to that gateway, none is created, and the returned id is the recorded one;
\* without a record no probe is issued, and without a record or with the probe
\* reporting the gateway absent exactly one gateway is created, none is
\* updated, and the new gateway's id is returned.  No deploy both creates and
\* updates a gateway.
C13_GatewayDecision ==
    LET probes == Indices("rest_api_exists")
        creates == Indices("import_rest_api")
        updates == Indices("update_api_from_swagger")
    IN  operation = "deploy" =>
           /\ ~(creates # {} /\ updates # {})
           /\ Cardinality(probes) <= 1
           /\ Cardinality(creates) <= 1 /\ Cardinality(updates) <= 1
           /\ existing_resources = {} => (probes = {} /\ updates = {})
           /\ \A i \in probes :
                 /\ existing_resources # {}
                 /\ calls[i].id = Existing.rest_api_id
                 /\ \A j \in creates \cup updates : i < j
                 /\ calls[i].ok => (calls[i].found <=> Existing.rest_api_id \in
                                        DOMAIN rest_apis \ {calls[j].id : j \in creates})
           /\ existing_resources # {} => (creates \cup updates # {} => probes # {})
           /\ \A j \in updates :
                 /\ \E i \in probes : calls[i].ok /\ calls[i].found
                 /\ calls[j].id = Existing.rest_api_id
           /\ \A j \in creates :
                 /\ \A i \in probes : calls[i].ok /\ ~calls[i].found
                 /\ existing_resources # {} => calls[j].id # Existing.rest_api_id
           /\ outcome = "ok" =>
                 \A r \in result :
                    IF \E i \in probes : calls[i].found
                    THEN /\ r.rest_api_id = Existing.rest_api_id
                         /\ \E j \in updates : calls[j].ok
                         /\ creates = {}
                    ELSE /\ \E j \in creates : calls[j].ok /\ r.rest_api_id = calls[j].id
                         /\ r.rest_api_id \in DOMAIN rest_apis
                         /\ updates = {}

\* the recorded gateway was deleted out-of-band and a new one was created
C13_Witness ==
    /\ operation = "deploy"
    /\ outcome = "ok"
    /\ \E i \in Indices("rest_api_exists") : ~calls[i].found
    /\ \E r \in result : r.rest_api_id # Existing.rest_api_id

\* the stage a deploy publishes to
C14_Stage == IF config.api_gateway_stage # "" THEN config.api_gateway_stage ELSE "dev"

\* the gateway phase is over
C14_Granted == operation = "deploy" /\ outcome = "ok"

C15_DeleteWithoutRecord ==
    (operation = "delete" /\ deployed = {} /\ pc # "delete") =>
        /\ pc = "done"
        /\ outcome = "deleted"
        /\ calls = <<>>

\* such a delete returned, with functions of an aborted first deploy around
C15_Witness ==
    /\ operation = "delete"
    /\ deployed = {}
    /\ pc = "done"
    /\ outcome = "deleted"
    /\ DOMAIN lambdas # {}

\* the delete calls that reported the resource gone
C16_Gone ==
    {i \in 1..Len(calls) :
        /\ calls[i].op \in {"delete_rest_api", "delete_function"}
        /\ ~calls[i].ok
        /\ ~calls[i].fault}

\* no call of the running operation failed
C16_NoFault == \A i \in 1..Len(calls) : ~calls[i].fault

\* the ARNs of the prior record's function mapping
C16_Recorded ==
    {Existing.lambda_functions[k] : k \in DOMAIN Existing.lambda_functions}

\* C16: a delete call that reports the gateway or a function gone never ends
\* the operation.  A delete in which no call fails otherwise returns normally
\* after the gateway delete, the delete of the primary function, a delete for
\* every recorded ARN and the identity probe, whichever of them were gone; a
\* deploy whose garbage collection met a function that was gone, and in
\* which no call fails otherwise, deletes every unreferenced ARN, goes through
\* the gateway phase and returns the record.
C16_AbsentNotFatal ==
    /\ \A i \in C16_Gone : i = Len(calls) => pc # "done"
    /\ (operation = "delete" /\ pc = "done" /\ existing_resources # {}
            /\ C16_NoFault) =>
          /\ outcome = "deleted"
          /\ Len(calls) >= 3
          /\ calls[1].op = "delete_rest_api"
          /\ calls[2].op = "delete_function"
          /\ C16_Recorded = {calls[i].arn : i \in Indices("delete_function") \ {2}}
          /\ Indices("get_role_arn_for_name") # {}
          /\ Existing.rest_api_id \notin DOMAIN rest_apis
          /\ Existing.api_handler_name \notin DOMAIN lambdas
    /\ (operation = "deploy" /\ pc = "done" /\ C16_Gone # {} /\ C16_NoFault) =>
          /\ outcome = "ok"
          /\ \A r \in result :
                Deleted = C16_Recorded \
                              {r.lambda_functions[k] : k \in DOMAIN r.lambda_functions}
          /\ Indices("deploy_rest_api") # {}
          /\ Indices("add_permission_for_apigateway_if_needed") # {}

\* a delete found the gateway and a function gone and went on to the role
C16_Witness ==
    /\ operation = "delete"
    /\ pc = "done"
    /\ outcome = "deleted"
    /\ 1 \in C16_Gone
    /\ Cardinality(C16_Gone) >= 3
    /\ \E i \in Indices("delete_function") : calls[i].ok

\* the calls on the execution identity that delete makes
C17_IdentitySteps ==
    {i \in 1..Len(calls) :
        calls[i].op \in {"get_role_arn_for_name", "confirm_delete_role", "delete_role"}}

\* C17: a delete on a stage with a record issues the delete of the recorded
\* gateway first, the delete of the recorded primary function second, then
\* one delete per ARN of the record's function mapping, and touches the
\* execution identity only after a delete was issued for every one of those
\* ARNs; it never issues a call that creates or updates anything.
C17_DeleteOrder ==
    (operation = "delete" /\ calls # <<>>) =>
        LET recorded == {Existing.lambda_functions[k] :
                            k \in DOMAIN Existing.lambda_functions}
            arn_deletes == Indices("delete_function") \ {2}
        IN  /\ existing_resources # {}
            /\ \A i \in 1..Len(calls) :
                  calls[i].op \in {"delete_rest_api", "delete_function",
                                   "get_role_arn_for_name", "confirm_delete_role",
                                   "delete_role"}
            /\ calls[1].op = "delete_rest_api"
            /\ calls[1].id = Existing.rest_api_id
            /\ Indices("delete_rest_api") = {1}
            /\ Len(calls) >= 2 =>
                  /\ calls[2].op = "delete_function"
                  /\ calls[2].name = Existing.api_handler_name
            /\ \A i \in arn_deletes :
                  /\ i > 2
                  /\ calls[i].arn \in recorded
                  /\ \A j \in arn_deletes : calls[j].arn = calls[i].arn => i = j
            /\ \A i \in C17_IdentitySteps :
                  /\ i > 2
                  /\ recorded = {calls[j].arn : j \in {k \in arn_deletes : k < i}}
                  /\ \A j \in Indices("delete_function") : j < i
            /\ (pc = "done" /\ outcome = "deleted") =>
                  /\ Len(calls) >= 3
                  /\ recorded = {calls[j].arn : j \in arn_deletes}

\* two recorded authorizer functions were deleted and then the role
C17_Witness ==
    /\ operation = "delete"
    /\ outcome = "deleted"
    /\ Cardinality(Indices("delete_function")) = 3
    /\ \E i \in Indices("delete_role") : calls[i].ok

\* the role the user provides
C18_UserManaged == ~config.manage_iam_role /\ config.iam_role_arn # <<>>

\* C18: when the execution identity is user-managed, a delete neither deletes
\* that identity nor asks for a confirmation to delete it, whatever its name
\* and whatever the prompter would answer.
C18_UserManagedIdentityKept ==
    (operation = "delete" /\ C18_UserManaged) =>
        \A i \in Indices("confirm_delete_role") \cup Indices("delete_role") :
            calls[i].name # config.iam_role_arn[2]

\* C19: delete deletes a role only right after the probe found it and the
\* confirmation for it was answered yes; a declined confirmation is the last
\* step of a delete that returns normally, with the recorded gateway and the
\* recorded primary function deleted before it; with the prompter that
\* returns the default answer, delete never issues a role deletion and no
\* operation ends as a user cancellation.
C19_DeleteRoleConsent ==
    /\ \A i \in Indices("delete_role") :
          /\ operation = "delete"
          /\ i > 2
          /\ calls[i - 1].op = "confirm_delete_role" /\ calls[i - 1].ok
          /\ calls[i - 1].name = calls[i].name
          /\ calls[i - 2].op = "get_role_arn_for_name"
          /\ calls[i - 2].ok /\ calls[i - 2].found
          /\ calls[i - 2].name = calls[i].name
    /\ \A i \in Indices("confirm_delete_role") :
          /\ i > 1
          /\ calls[i - 1].op = "get_role_arn_for_name" /\ calls[i - 1].found
          /\ ~calls[i].ok =>
                /\ i = Len(calls)
                /\ pc = "done"
                /\ outcome = "deleted"
                /\ calls[i].name \in DOMAIN roles
                /\ calls[1].op = "delete_rest_api"
                /\ calls[2].op = "delete_function"
                /\ Existing.rest_api_id \notin DOMAIN rest_apis
                /\ Existing.api_handler_name \notin DOMAIN lambdas
                /\ \A k \in DOMAIN Existing.lambda_functions :
                      k \notin DOMAIN lambdas
    /\ prompter = "NoPrompt" =>
          /\ Indices("delete_role") = {}
          /\ \A i \in Indices("confirm_delete_role") : ~calls[i].ok
          /\ outcome # "Abort"

\* the confirmation was declined after a gateway and two functions were deleted
C19_Witness ==
    /\ operation = "delete"
    /\ outcome = "deleted"
    /\ Len(calls) > 3
    /\ calls[Len(calls)].op = "confirm_delete_role"
    /\ ~calls[Len(calls)].ok
    /\ prompter = "Interactive"
    /\ \E i \in Indices("delete_function") : i > 2 /\ calls[i].ok
    /\ calls[1].ok

C20_GatewayOps ==
    {"rest_api_exists", "import_rest_api", "update_api_from_swagger",
     "deploy_rest_api", "add_permission_for_apigateway_if_needed",
     "add_permission_for_authorizer"}

C20_FunctionOps ==
    {"lambda_function_exists", "get_function_configuration", "create_function",
     "update_function"}

\* the phase a call belongs to: 1 the primary function, 1 + n the function of
\* the authorizer declared at position n, 50 garbage collection, 100 the
\* gateway; 0 for a call on an identity or a confirmation, which belongs to
\* the function that is being reconciled; 99 for a function nobody declared
C20_Phase(entry, handler) ==
    IF entry.op \in C20_GatewayOps THEN 100
    ELSE IF entry.op = "delete_function" THEN 50
    ELSE IF entry.op \notin C20_FunctionOps THEN 0
    ELSE IF entry.name \in {"app-dev", "app"} THEN 1
    ELSE LET at == {n \in DOMAIN config.builtin_auth_handlers :
                       entry.name = handler \o "-" \o config.builtin_auth_handlers[n]}
         IN  IF at = {} THEN 99 ELSE 1 + CHOOSE n \in at : TRUE

\* C20: in the log of a deploy that has ended, well or not, every call on the
\* primary function comes before every call on an authorizer function, and
\* an authorizer function is touched only if the primary function was created
\* or updated; the authorizers are reconciled one at a time in the declared
\* order, each only if the ones before it were created or updated; garbage
\* collection comes after every call on a function or an identity, and it and
\* the gateway phase are entered only if every declared authorizer was
\* reconciled; and every call of the compute phase, garbage collection
\* included, comes before every gateway call.
C20_PhaseOrder ==
    (operation = "deploy" /\ pc = "done") =>
        LET n == Len(calls)
            handler == IF HandlerResolved THEN deployed_values["api_handler_name"]
                       ELSE ""
            phase == [i \in 1..n |-> C20_Phase(calls[i], handler)]
            functions == {i \in 1..n : 0 < phase[i] /\ phase[i] < 50}
            reconciled == {phase[i] : i \in {j \in functions :
                              /\ calls[j].op \in {"create_function", "update_function"}
                              /\ calls[j].ok}}
        IN  /\ \A i \in 1..n : phase[i] # 99
            /\ \A i \in 1..(n - 1) : phase[i] >= 50 => phase[i + 1] >= phase[i]
            /\ \A i, j \in functions : i < j => phase[i] <= phase[j]
            /\ \A i \in functions :
                  phase[i] > 1 => \A m \in 1..(phase[i] - 1) : m \in reconciled
            /\ (\E i \in 1..n : phase[i] >= 50) =>
                  \A m \in 1..(1 + Len(config.builtin_auth_handlers)) : m \in reconciled

\* two authorizers were reconciled, a function was collected and the gateway
\* was updated
C20_Witness ==
    /\ operation = "deploy"
    /\ outcome = "ok"
    /\ Len(config.builtin_auth_handlers) = 2
    /\ Indices("delete_function") # {}
    /\ Indices("update_api_from_swagger") # {}

-----------------------------------------------------------------------------
(* The creation of the managed identity.                                   *)

\* the entries a step adds to the log
C21_Added == SubSeq(calls', Len(calls) + 1, Len(calls'))

\* the document a deploy generates, read off the config and the file
C21_Generated ==
    IF config.autogen_policy THEN config.generated_policy
    ELSE IF policy_file = {} THEN [Version |-> "2012-10-17", Statement |-> <<>>]
    ELSE CHOOSE d \in policy_file : TRUE

\* C21: a probe of the managed identity that finds nothing leads to the
\* creation step and nothing else does; there a confirmation is asked exactly
\* when the generated document has more than one statement and its default
\* answer is to proceed; a declined confirmation aborts the deploy, is the last
\* entry of its log and leaves the identities, the functions and the
\* last-applied file as they were; otherwise create_role is called once, for
\* the probed name, with the fixed trust policy, and when it succeeds the
\* identity exists with the generated document attached and that document is
\* the last-applied file, which a failed creation leaves unwritten; no name is
\* created twice in one deploy.
C21_IdentityCreationGate ==
    /\ [][(operation = "deploy" /\ calls' # calls /\ calls' # <<>>
              /\ calls'[Len(calls')].op = "get_role_arn_for_name")
             => (pc' = "create_role" <=>
                    (calls'[Len(calls')].ok /\ ~calls'[Len(calls')].found))]_vars
    /\ [](pc = "create_role" =>
             /\ calls # <<>>
             /\ calls[Len(calls)].op = "get_role_arn_for_name"
             /\ calls[Len(calls)].name = role_name
             /\ ~calls[Len(calls)].found
             /\ role_name \notin DOMAIN roles
             /\ config.manage_iam_role)
    /\ [][pc = "create_role" =>
             LET asked == Len(C21_Generated.Statement) > 1
                 added == C21_Added
                 n == Len(added)
             IN  /\ n = IF asked /\ added[1].ok THEN 2 ELSE 1
                 /\ asked <=> added[1].op = "confirm_create_role"
                 /\ (asked /\ prompter = "NoPrompt") => added[1].ok
                 /\ (asked /\ ~added[1].ok) =>
                        /\ outcome' = "Abort"
                        /\ pc' = "done"
                        /\ UNCHANGED <<roles, lambdas, policy_file>>
                 /\ (~asked \/ added[1].ok) =>
                        /\ added[n].op = "create_role"
                        /\ added[n].name = role_name
                        /\ added[n].trust = "lambda.amazonaws.com"
                        /\ IF added[n].ok
                           THEN /\ DOMAIN roles' = DOMAIN roles \cup {role_name}
                                /\ roles'[role_name] = {C21_Generated}
                                /\ \A r \in DOMAIN roles : roles'[r] = roles[r]
                                /\ policy_file' = {C21_Generated}
                                /\ outcome' = ""
                           ELSE /\ UNCHANGED <<roles, policy_file>>
                                /\ outcome' = "ChaliceDeploymentError"]_vars
    /\ [](\A i \in Indices("confirm_create_role") :
             ~calls[i].ok =>
                 i = Len(calls) /\ pc = "done" /\ outcome = "Abort")
    /\ [](\A i \in Indices("create_role") :
             /\ i > 1
             /\ calls[i - 1].op \in {"confirm_create_role", "get_role_arn_for_name"}
             /\ \A j \in Indices("create_role") : calls[j].name = calls[i].name => j = i)

\* the generated document has two statements, the confirmation was given and
\* the identity was created with it
C21_Witness ==
    /\ Len(calls) > 2
    /\ calls[Len(calls)].op = "create_role"
    /\ calls[Len(calls)].ok
    /\ calls[Len(calls) - 1].op = "confirm_create_role"
    /\ ~calls[Len(calls) - 2].found
    /\ prompter = "Interactive"
    /\ policy_file = {config.generated_policy}
    /\ Len(config.generated_policy.Statement) = 2

-----------------------------------------------------------------------------
(* The ApplicationPolicyHandler on the files of the .chalice directory.    *)
(* Spec keeps the one file the handler resolves (policy_file); here the    *)
(* directory holds every file the resolution chooses among.                *)

\* line 812: 'policy-%s.json' % config.chalice_stage
StagePolicyFile(stage) == "policy-" \o stage \o ".json"

\* lines 820-821
LegacyPolicyFile == "policy.json"

\* a stage other than the default one
OtherStageName == "prod"

\* a file name the user configures as iam_policy_file
CustomPolicyFile == "custom.json"

file_exists(dir, filename) == filename \in DOMAIN dir

get_file_contents(dir, filename) == dir[filename]

set_file_contents(dir, filename, contents) == Put(dir, filename, contents)

\* the name after the stage, whether the file exists or not
PolicyFileOfStage(c, dir) ==
    IF c.iam_policy_file # "" THEN c.iam_policy_file
    ELSE StagePolicyFile(c.chalice_stage)

\* the file's name inside <project_dir>/.chalice
_app_policy_file(c, dir) ==
    IF c.iam_policy_file # "" THEN c.iam_policy_file
    ELSE LET filename == StagePolicyFile(c.chalice_stage)
         IN  IF ~file_exists(dir, filename) /\ c.chalice_stage = DEFAULT_STAGE_NAME
             THEN LegacyPolicyFile
             ELSE filename

\* the text of a document, as the sequence of its tokens
json_dumps(document) ==
    <<"{", "Version", ":", document.Version, ",", "Statement", ":", "[">>
        \o document.Statement \o <<"]", "}">>

json_loads(text) ==
    [Version |-> text[4], Statement |-> SubSeq(text, 9, Len(text) - 2)]

PolicyHandlerFrame ==
    UNCHANGED <<env, remote, locals, deployed, policy_file, stack,
                existing_resources, record_read, deployed_values, calls, outcome,
                result, faults, deploys, operation, previous>>

\* load_last_policy, lines 786-794
LoadLastPolicy ==
    /\ pc \in {"policy_handler", "policy_recorded"}
    /\ LET filename == _app_policy_file(config, chalice_dir)
       IN  loaded_policy' =
               IF ~file_exists(chalice_dir, filename)
               THEN {_EMPTY_POLICY}
               ELSE {json_loads(get_file_contents(chalice_dir, filename))}
    /\ pc' = IF pc = "policy_recorded" THEN "policy_loaded" ELSE pc
    /\ UNCHANGED <<chalice_dir, recorded_policy>>
    /\ PolicyHandlerFrame

\* record_policy, lines 796-803
RecordPolicy ==
    /\ pc \in {"policy_handler", "policy_recorded"}
    /\ \E document \in Documents :
          /\ recorded_policy' = {document}
          /\ chalice_dir' =
                 set_file_contents(chalice_dir, _app_policy_file(config, chalice_dir),
                                   json_dumps(document))
    /\ pc' = "policy_recorded"
    /\ UNCHANGED loaded_policy
    /\ PolicyHandlerFrame

\* the configs: an explicit file name or none, the default stage or another
PolicyConfigs ==
    { [Config(TRUE, NoArn, DefaultRoutes, <<>>, TRUE, GeneratedDefault)
          EXCEPT !.iam_policy_file = f, !.chalice_stage = st] :
          f \in {"", CustomPolicyFile, LegacyPolicyFile},
          st \in {DEFAULT_STAGE_NAME, OtherStageName} }

PolicyFileNames ==
    { StagePolicyFile(DEFAULT_STAGE_NAME), StagePolicyFile(OtherStageName),
      LegacyPolicyFile, CustomPolicyFile }

\* what the files hold: documents written before
PolicyFileContents ==
    { json_dumps(Policy(<<LogsStatement>>)), json_dumps(GeneratedDefault) }

\* every state of the directory: each file present or absent
PolicyDirectories ==
    UNION { [present -> PolicyFileContents] : present \in SUBSET PolicyFileNames }

InitPolicyHandler ==
    /\ config \in PolicyConfigs
    /\ chalice_dir \in PolicyDirectories
    /\ recorded_policy = {}
    /\ loaded_policy = {}
    /\ pc = "policy_handler"
    /\ prompter = "NoPrompt"
    /\ deployed = {}
    /\ policy_file = {}
    /\ lambdas = EmptyDict
    /\ roles = EmptyDict
    /\ rest_apis = EmptyDict
    /\ next_api_id = 1
    /\ stack = <<>>
    /\ existing_resources = {}
    /\ record_read = FALSE
    /\ deployed_values = EmptyDict
    /\ role_name = ""
    /\ role_arn = NoArn
    /\ lambda_name = ""
    /\ function_arn = NoArn
    /\ idx = 1
    /\ unreferenced = {}
    /\ rest_api_id = 0
    /\ grants_left = {}
    /\ calls = <<>>
    /\ outcome = ""
    /\ result = {}
    /\ faults = 0
    /\ deploys = 0
    /\ operation = ""
    /\ previous = [outcome |-> "", deployed |-> {}, policy_file |-> {},
                   roles |-> EmptyDict]

NextPolicyHandler ==
    \/ LoadLastPolicy
    \/ RecordPolicy

SpecPolicyHandler == InitPolicyHandler /\ [][NextPolicyHandler]_vars

\* the path the code is to resolve, read off the config and the directory
C22_Path ==
    IF config.iam_policy_file # "" THEN config.iam_policy_file
    ELSE IF config.chalice_stage # "dev" THEN "policy-" \o config.chalice_stage \o ".json"
    ELSE IF "policy-dev.json" \in DOMAIN chalice_dir THEN "policy-dev.json"
    ELSE "policy.json"

\* C22: record_policy writes the document to the path resolved from the config
\* and the directory (the configured file name, else policy-<stage>.json, else
\* for the default stage policy.json when policy-dev.json does not exist) and
\* leaves every other file alone; the write does not change what the path
\* resolves to, so a load_last_policy after a record_policy returns the
\* recorded document, for every config and every state of the directory; a
\* load_last_policy whose resolved file does not exist returns the document
\* with no statement.
C22_PersistLoadRoundTrip ==
    /\ [](pc = "policy_loaded" => loaded_policy = recorded_policy /\ recorded_policy # {})
    /\ [][recorded_policy' # recorded_policy =>
             /\ C22_Path' = C22_Path
             /\ DOMAIN chalice_dir' = DOMAIN chalice_dir \cup {C22_Path}
             /\ \A f \in DOMAIN chalice_dir \ {C22_Path} : chalice_dir'[f] = chalice_dir[f]]_vars
    /\ [][(loaded_policy' # loaded_policy /\ C22_Path \notin DOMAIN chalice_dir) =>
             loaded_policy' = {[Version |-> "2012-10-17", Statement |-> <<>>]}]_vars
    /\ [][(loaded_policy' # loaded_policy /\ pc = "policy_handler"
              /\ C22_Path \in DOMAIN chalice_dir) =>
             \E d \in loaded_policy' :
                 /\ d.Version = "2012-10-17"
                 /\ d.Statement \in {<<{"logs:CreateLogGroup", "logs:PutLogEvents"}>>,
                                     <<{"logs:CreateLogGroup", "logs:PutLogEvents"},
                                       {"s3:GetObject"}>>}]_vars

\* the default stage without policy-dev.json: the document went to policy.json
\* and was loaded from there
C22_Witness ==
    /\ pc = "policy_loaded"
    /\ config.iam_policy_file = ""
    /\ config.chalice_stage = "dev"
    /\ "policy-dev.json" \notin DOMAIN chalice_dir
    /\ "policy.json" \in DOMAIN chalice_dir
    /\ loaded_policy = {[Version |-> "2012-10-17", Statement |-> <<{"s3:GetObject"},
                              {"logs:CreateLogGroup", "logs:PutLogEvents"}>>]}

-----------------------------------------------------------------------------
(* The first update of an existing identity.                               *)

\* the document a deploy generates when no last-applied file exists
C23_Generated ==
    IF config.autogen_policy THEN config.generated_policy
    ELSE [Version |-> "2012-10-17", Statement |-> <<>>]

\* C23: when the managed identity exists and no last-applied file does, the
\* update of its policy asks no confirmation if the generated document has no
\* statement or one statement only.
C23_FirstRunTrivialUnprompted ==
    [][(operation = "deploy" /\ pc = "update_role_policy" /\ policy_file = {}
           /\ Len(C23_Generated.Statement) <= 1)
          => \A i \in (Len(calls) + 1)..Len(calls') :
                 calls'[i].op # "confirm_policy"]_vars

-----------------------------------------------------------------------------
(* Garbage collection and the gateway.                                     *)

\* C24: during and after a deploy, no live gateway's routing document names an
\* authorizer function that the garbage collection of this deploy deleted.
C24_NoDanglingAuthorizer ==
    operation = "deploy" =>
        \A i \in Indices("delete_function") :
            calls[i].ok =>
                \A id \in DOMAIN rest_apis :
                    calls[i].arn \notin rest_apis[id].swagger.authorizers


\* C25: at any time at most one gateway of the stage is live, whatever deploys
\* ran before and however they ended.
C25_NoOrphanedGateway == Cardinality(DOMAIN rest_apis) <= 1

-----------------------------------------------------------------------------
(* The last-applied file and the attached policy.                          *)

\* every identity of `attached` has the document of `file` attached
C26_Matches(attached, file) == \A n \in DOMAIN attached : attached[n] = file

\* C26: when a deploy with a managed identity has ended, the last-applied file
\* and the policy attached to the identity agree if they agreed when the deploy
\* started.
C26_LastAppliedMatchesAttached ==
    (operation = "deploy" /\ pc = "done" /\ config.manage_iam_role
        /\ C26_Matches(previous.roles, previous.policy_file))
       => C26_Matches(roles, policy_file)

-----------------------------------------------------------------------------
(* The confirmations of one deploy.                                        *)

\* the probes of this deploy that found the identity
C27_Resolutions ==
    {i \in Indices("get_role_arn_for_name") : calls[i].ok /\ calls[i].found}

\* the policy replacements of this deploy that went through
C27_Replaced == {i \in Indices("put_role_policy") : calls[i].ok}

\* C27: one deploy asks the confirmation of a policy diff at most once, however
\* often it resolves the managed identity: once a replacement went through,
\* the last-applied file holds the document the deploy generates, and a later
\* replacement of the same deploy asks nothing.
C27_OneDiffConfirmation ==
    /\ [](operation = "deploy" => Cardinality(Indices("confirm_policy")) <= 1)
    /\ []((operation = "deploy" /\ C27_Replaced # {}) =>
             /\ policy_file # {}
             /\ config.autogen_policy => policy_file = {config.generated_policy})
    /\ [][(operation = "deploy" /\ pc = "update_role_policy" /\ C27_Replaced # {})
             => \A i \in (Len(calls) + 1)..Len(calls') :
                    calls'[i].op # "confirm_policy"]_vars

\* the identity was found twice, before and inside the update of the primary
\* function, its policy replaced each time, and the one confirmation was asked
\* before the first replacement
C27_Witness ==
    /\ operation = "deploy"
    /\ Cardinality(C27_Resolutions) >= 2
    /\ Cardinality(C27_Replaced) >= 2
    /\ \E i \in Indices("confirm_policy") :
           /\ calls[i].ok
           /\ \A j \in C27_Replaced : i < j

====
